---- MODULE Spec2Model ----
(***************************************************************************)
(* A model of the Tari peer RPC server core                                *)
(*   comms/core/src/bounded_executor.rs                                    *)
(*   comms/core/src/protocol/rpc/server/mod.rs                             *)
(*                                                                         *)
(* Two specifications share this module.                                   *)
(*   Spec        the supervisor (PeerRpcServer::serve), the bounded        *)
(*               executor and the session tasks seen from the executor:    *)
(*               spawned, running, finished or panicked.                   *)
(*   SessionSpec one session worker (ActivePeerRpcService) in detail: the  *)
(*               request loop, dispatch, streaming, interruption checks.   *)
(*   ExecSpec    the bounded executor used through its whole interface,    *)
(*               try_spawn and the waiting spawn, by any number of callers.*)
(* Each specification leaves the variables of the others where they start. *)
(***************************************************************************)
EXTENDS Integers, Sequences, FiniteSets, TLC

(***************************************************************************)
(* Bounds of the model.                                                    *)
(***************************************************************************)
\* maximum_simultaneous_sessions = Some(MaxSessions): the executor's permits.
MaxSessions == 2
\* Inbound substreams the transport offers over a run (more than MaxSessions + 1).
MaxSubstreams == 4
\* Control-plane requests sent over a run.
MaxControl == 1

\* Inbound frames the client of the session sends over a run.
MaxFrames == 3
\* Inbound frames that may wait unread in the framed stream.
InboxCap == 1
\* Inbound frames the client sends in the runs checked for termination.
MaxLiveFrames == 1
\* Messages a response body yields at most.
MaxBodyItems == 2
\* The chunking threshold, in bytes (scaled down).
ChunkSize == 2

\* Calls of try_spawn and spawn made on the executor over a run.
MaxJobs == 4

Substreams == 1..MaxSubstreams
ControlIds == 1..MaxControl

VARIABLES
    \* ---- supervisor, executor, session tasks (Spec) ----
    offered,      \* number of substreams the transport has offered so far
    notifQ,       \* protocol notifications not yet received by serve
    notifClosed,  \* the notification sender was dropped
    ctrlSent,     \* number of control requests sent so far
    ctrlQ,        \* control requests not yet received by serve
    ctrlReply,    \* reply to each control request (-1: none yet)
    svPc,         \* position of the supervisor task
    cur,          \* substream of the admission attempt in progress (0: none)
    permits,      \* semaphore.available_permits()
    task,         \* state of the task spawned for each substream
    reply,        \* handshake reply written to each substream
    outcome,      \* result of try_initiate_service for each substream
    made,         \* the service factory was called for the substream
    noPermit,     \* no permit was free when the attempt tested can_spawn
    hsErrors,     \* handshake_error_counter, per substream (peer, protocol)
    gauge,        \* the num_sessions gauge
    \* ---- one session worker (SessionSpec) ----
    sPc,           \* position of the session task
    inbox,         \* inbound frames written by the client and not yet read
    clientSent,    \* number of frames the client has sent
    remoteClosed,  \* the client closed the substream
    framesRead,    \* number of frames run() has read in READING
    request,       \* the latest frame run() read in READING
    handling,      \* how far the handling of that frame has come
    prevHandling,  \* how the handling of the frame before it ended
    interrupt,     \* the frame check_interruptions consumed while handling it
    serviceCalled, \* the service was called for that frame
    svcStatus,     \* the RpcStatus the service call failed with, if it did
    outbound,      \* the frames handed to framed.send for that frame, in order
    writeFailed,   \* a framed.send for that frame failed
    metricsLog,    \* the counters incremented while handling that frame
    chunks,        \* sub-messages of the current body message not yet written
    bodyCount,     \* messages the response body has yielded
    bodyDone,      \* the response body has yielded its last message
    closed,        \* framed.close() was called
    runResult,     \* what the session task ended with ("running": it has not)
    runError,      \* the error run() returned, if it returned one
    startError,    \* start() counted the session's error in error_counter
    \* ---- the executor and its callers (ExecSpec) ----
    job,           \* how far each call of try_spawn or spawn, and its task, has come
    via,           \* the method each job was submitted through
    waitQ,         \* the acquires waiting in the semaphore, oldest first
    blockers,      \* the tasks that held all the permits when spawn was called
    released,      \* how many times the permit of each job was given back
    freeAtCall,    \* num_available() when each job was submitted
    \* ---- one body item on its way to the wire (ResponseSpec) ----
    bodyResult,    \* the request id and the body item given to into_response
    rpcResponse,   \* the RpcResponse into_response made of it
    subMessages    \* the messages ChunkedResponseIter made of that response

svars == <<offered, notifQ, notifClosed, ctrlSent, ctrlQ, ctrlReply, svPc, cur,
           permits, task, reply, outcome, made, noPermit, hsErrors, gauge>>

wvars == <<sPc, inbox, clientSent, remoteClosed, framesRead, request, handling,
           prevHandling, interrupt, serviceCalled, svcStatus, outbound, writeFailed, metricsLog, chunks,
           bodyCount, bodyDone, closed, runResult, runError, startError>>

evars == <<job, via, waitQ, blockers, released, freeAtCall>>

rvars == <<bodyResult, rpcResponse, subMessages>>

\* The supervisor's variables other than the permits.
snp == <<offered, notifQ, notifClosed, ctrlSent, ctrlQ, ctrlReply, svPc, cur,
         task, reply, outcome, made, noPermit, hsErrors, gauge>>

vars == <<svars, wvars, evars, rvars>>

(***************************************************************************)
(* BoundedExecutor                                                         *)
(***************************************************************************)
\* BoundedExecutor::new: max_available = num_permits.
MaxAvailable == MaxSessions

\* BoundedExecutor::num_available
NumAvailable == permits

\* BoundedExecutor::can_spawn
CanSpawnAlways == TRUE
CanSpawn == NumAvailable > 0

\* try_acquire_owned succeeds iff a permit is free.
TryAcquireAlways(p) == TRUE
TryAcquireOk(p) == p > 0

\* The permit count after try_acquire_owned took one permit.
AcquireNothing(p) == p
AfterAcquire(p) == p - 1

\* The permit count after drop(permit) at the end of the spawned task.
ReleaseTwice(p) == p + 2
AfterRelease(p) == p + 1

\* Tasks spawned through the executor that have not finished.
Unfinished == {s \in Substreams : task[s] \in {"spawned", "running"}}

(***************************************************************************)
(* Initial state: PeerRpcServer::new, before serve is polled.              *)
(***************************************************************************)
ServerInit ==
    /\ offered = 0
    /\ notifQ = <<>>
    /\ notifClosed = FALSE
    /\ ctrlSent = 0
    /\ ctrlQ = <<>>
    /\ ctrlReply = [c \in ControlIds |-> -1]
    /\ svPc = "select"
    /\ cur = 0
    /\ permits = MaxSessions
    /\ task = [s \in Substreams |-> "none"]
    /\ reply = [s \in Substreams |-> "none"]
    /\ outcome = [s \in Substreams |-> "pending"]
    /\ made = [s \in Substreams |-> FALSE]
    /\ noPermit = [s \in Substreams |-> FALSE]
    /\ hsErrors = [s \in Substreams |-> 0]
    /\ gauge = 0

(***************************************************************************)
(* The environment of the supervisor: the transport and the server handle. *)
(***************************************************************************)
\* The transport delivers NewInboundSubstream for a fresh substream.
OfferSubstream ==
    /\ ~notifClosed
    /\ offered < MaxSubstreams
    /\ offered' = offered + 1
    /\ notifQ' = Append(notifQ, offered + 1)
    /\ UNCHANGED <<notifClosed, ctrlSent, ctrlQ, ctrlReply, svPc, cur, permits,
                   task, reply, outcome, made, noPermit, hsErrors, gauge, wvars, evars, rvars>>

\* The notification sender is dropped: recv() yields None once the queue is empty.
CloseNotifications ==
    /\ ~notifClosed
    /\ notifClosed' = TRUE
    /\ UNCHANGED <<offered, notifQ, ctrlSent, ctrlQ, ctrlReply, svPc, cur, permits,
                   task, reply, outcome, made, noPermit, hsErrors, gauge, wvars, evars, rvars>>

\* RpcServerHandle sends GetNumActiveSessions while the receiver is alive.
SendControlRequest ==
    /\ svPc # "done"
    /\ ctrlSent < MaxControl
    /\ ctrlSent' = ctrlSent + 1
    /\ ctrlQ' = Append(ctrlQ, ctrlSent + 1)
    /\ UNCHANGED <<offered, notifQ, notifClosed, ctrlReply, svPc, cur, permits,
                   task, reply, outcome, made, noPermit, hsErrors, gauge, wvars, evars, rvars>>

(***************************************************************************)
(* PeerRpcServer::serve                                                    *)
(***************************************************************************)
SaturatingSub(a, b) == IF a > b THEN a - b ELSE 0

\* PeerRpcServer::handle_request(GetNumActiveSessions)
NumActiveOffByOne == SaturatingSub(MaxSessions, NumAvailable) + 1
NumActive == SaturatingSub(MaxSessions, NumAvailable)

\* serve awaits each handler inside its select! arm: the next event is taken
\* only when the loop is back at select!.
AtSelectOrInHandler == svPc # "done"
AtSelect == svPc = "select"

\* select! branch: Some(req) = request_rx.recv()
ServeControlRequest ==
    /\ AtSelect
    /\ ctrlQ # <<>>
    /\ ctrlReply' = [ctrlReply EXCEPT ![Head(ctrlQ)] = NumActive]
    /\ ctrlQ' = Tail(ctrlQ)
    /\ UNCHANGED <<offered, notifQ, notifClosed, ctrlSent, svPc, cur, permits,
                   task, reply, outcome, made, noPermit, hsErrors, gauge, wvars, evars, rvars>>

\* select! branch: protocol_notifs.recv() = None => break; serve returns Ok.
\* The tasks were detached when their JoinHandle was dropped: they go on.
ServeNotificationsEndedCancels ==
    /\ svPc = "select"
    /\ notifQ = <<>>
    /\ notifClosed
    /\ svPc' = "done"
    /\ task' = [s \in Substreams |->
                  IF task[s] \in {"spawned", "running"} THEN "finished" ELSE task[s]]
    /\ UNCHANGED <<offered, notifQ, notifClosed, ctrlSent, ctrlQ, ctrlReply, cur,
                   permits, reply, outcome, made, noPermit, hsErrors, gauge,
                   wvars, evars, rvars>>
ServeNotificationsEnded ==
    /\ AtSelect
    /\ notifQ = <<>>
    /\ notifClosed
    /\ svPc' = "done"
    /\ UNCHANGED <<offered, notifQ, notifClosed, ctrlSent, ctrlQ, ctrlReply, cur,
                   permits, task, reply, outcome, made, noPermit, hsErrors, gauge, wvars, evars, rvars>>

\* select! branch: protocol_notifs.recv() = Some(notif). handle_protocol_notification
\* frames the substream and try_initiate_service tests can_spawn.
ServeNotification ==
    /\ AtSelect
    /\ notifQ # <<>>
    /\ cur' = Head(notifQ)
    /\ notifQ' = Tail(notifQ)
    /\ svPc' = IF CanSpawn THEN "make_service" ELSE "reject_full"
    /\ noPermit' = [noPermit EXCEPT ![Head(notifQ)] = (permits = 0)]
    /\ UNCHANGED <<offered, notifClosed, ctrlSent, ctrlQ, ctrlReply, permits,
                   task, reply, outcome, made, hsErrors, gauge, wvars, evars, rvars>>

\* The match of handle_protocol_notification on what try_initiate_service returned:
\* a HandshakeError bumps the handshake error counter; nothing is propagated.
CountsAsHandshakeError(res) == res = "HandshakeError"

EndAttemptFailing(res) ==
    /\ outcome' = [outcome EXCEPT ![cur] = res]
    /\ hsErrors' = [hsErrors EXCEPT ![cur] =
                       IF CountsAsHandshakeError(res) THEN @ + 1 ELSE @]
    /\ cur' = 0
    /\ svPc' = IF res = "Ok" THEN "select" ELSE "failed"
EndAttempt(res) ==
    /\ outcome' = [outcome EXCEPT ![cur] = res]
    /\ hsErrors' = [hsErrors EXCEPT ![cur] =
                       IF CountsAsHandshakeError(res) THEN @ + 1 ELSE @]
    /\ cur' = 0
    /\ svPc' = "select"

\* What try_initiate_service returns after reject_with_reason(NoSessionsAvailable).
FullResultOk == "Ok"
FullResult == "MaximumSessionsReached"

\* !can_spawn: handshake.reject_with_reason(NoSessionsAvailable).await?
RejectFull ==
    /\ svPc = "reject_full"
    /\ \E written \in BOOLEAN :
          IF written
          THEN /\ reply' = [reply EXCEPT ![cur] = "Reject_NoSessionsAvailable"]
               /\ EndAttempt(FullResult)
          ELSE /\ reply' = reply
               /\ EndAttempt("HandshakeError")
    /\ UNCHANGED <<offered, notifQ, notifClosed, ctrlSent, ctrlQ, ctrlReply,
                   permits, task, made, noPermit, gauge, wvars, evars, rvars>>

\* self.service.make_service(protocol).await
MakeService ==
    /\ svPc = "make_service"
    /\ made' = [made EXCEPT ![cur] = TRUE]
    /\ \E found \in BOOLEAN :
          svPc' = IF found THEN "handshake" ELSE "reject_protocol"
    /\ UNCHANGED <<offered, notifQ, notifClosed, ctrlSent, ctrlQ, ctrlReply, cur,
                   permits, task, reply, outcome, noPermit, hsErrors, gauge, wvars, evars, rvars>>

\* make_service failed: reject_with_reason(ProtocolNotSupported).await?; Err(err)
RejectProtocolSkipped ==
    /\ svPc = "reject_protocol"
    /\ svPc' = "handshake"
    /\ UNCHANGED <<offered, notifQ, notifClosed, ctrlSent, ctrlQ, ctrlReply, cur,
                   permits, task, reply, outcome, made, noPermit, hsErrors, gauge,
                   wvars, evars, rvars>>
RejectProtocol ==
    /\ svPc = "reject_protocol"
    /\ \E written \in BOOLEAN :
          IF written
          THEN /\ reply' = [reply EXCEPT ![cur] = "Reject_ProtocolNotSupported"]
               /\ EndAttempt("MakeServiceError")
          ELSE /\ reply' = reply
               /\ EndAttempt("HandshakeError")
    /\ UNCHANGED <<offered, notifQ, notifClosed, ctrlSent, ctrlQ, ctrlReply,
                   permits, task, made, noPermit, gauge, wvars, evars, rvars>>

\* Handshake::perform_server_handshake under handshake_timeout.
HandshakeResults == {"accepted", "no_supported_version", "timed_out", "failed"}

\* The `?` on a failed handshake: try_initiate_service returns the error; no
\* permit was taken yet and no task exists.
HandshakeFailedHoldingPermit(sent) ==
    /\ reply' = [reply EXCEPT ![cur] = sent]
    /\ EndAttempt("HandshakeError")
    /\ permits' = IF permits > 0 THEN permits - 1 ELSE permits
    /\ task' = task
HandshakeFailed(sent) ==
    /\ reply' = [reply EXCEPT ![cur] = sent]
    /\ EndAttempt("HandshakeError")
    /\ UNCHANGED <<permits, task>>

\* handshake.perform_server_handshake().await?
PerformHandshake ==
    /\ svPc = "handshake"
    /\ \E r \in HandshakeResults :
          CASE r = "accepted" ->
                  /\ reply' = [reply EXCEPT ![cur] = "Accept"]
                  /\ svPc' = "try_spawn"
                  /\ UNCHANGED <<outcome, hsErrors, cur, permits, task>>
            [] r = "no_supported_version" ->
                  HandshakeFailed("Reject_UnsupportedVersion")
            [] OTHER ->
                  HandshakeFailed(reply[cur])
    /\ UNCHANGED <<offered, notifQ, notifClosed, ctrlSent, ctrlQ, ctrlReply,
                   made, noPermit, gauge, wvars, evars, rvars>>

\* self.executor.try_spawn(session task).map_err(|_| MaximumSessionsReached)?
TrySpawn ==
    /\ svPc = "try_spawn"
    /\ IF TryAcquireOk(permits)
       THEN /\ permits' = AfterAcquire(permits)
            /\ task' = [task EXCEPT ![cur] = "spawned"]
            /\ EndAttempt("Ok")
       ELSE /\ UNCHANGED <<permits, task>>
            /\ EndAttempt("MaximumSessionsReached")
    /\ UNCHANGED <<offered, notifQ, notifClosed, ctrlSent, ctrlQ, ctrlReply,
                   reply, made, noPermit, gauge, wvars, evars, rvars>>

(***************************************************************************)
(* The session task handed to try_spawn, as the executor sees it:          *)
(*   num_sessions.inc(); service.start().await; num_sessions.dec();        *)
(* wrapped by do_spawn, which drops the permit when the task is over.      *)
(***************************************************************************)
\* The task of substream s is over; the tasks of the other sessions are
\* separate futures and are not touched.
TaskOverForAll(s, how) ==
    [o \in Substreams |-> IF task[o] = "running" THEN how ELSE task[o]]
TaskOver(s, how) == [task EXCEPT ![s] = how]

\* The runtime polls the task for the first time: num_sessions.inc().
SessionBegin(s) ==
    /\ task[s] = "spawned"
    /\ task' = [task EXCEPT ![s] = "running"]
    /\ gauge' = gauge + 1
    /\ UNCHANGED <<offered, notifQ, notifClosed, ctrlSent, ctrlQ, ctrlReply, svPc,
                   cur, permits, reply, outcome, made, noPermit, hsErrors, wvars, evars, rvars>>

\* start() returned (run ended Ok or Err): num_sessions.dec(); drop(permit).
SessionFinish(s) ==
    /\ task[s] = "running"
    /\ task' = TaskOver(s, "finished")
    /\ gauge' = gauge - 1
    /\ permits' = AfterRelease(permits)
    /\ UNCHANGED <<offered, notifQ, notifClosed, ctrlSent, ctrlQ, ctrlReply, svPc,
                   cur, reply, outcome, made, noPermit, hsErrors, wvars, evars, rvars>>

\* start() panicked (u8::try_from(flags).unwrap() on flags above 255): the task
\* unwinds, the permit captured by the task is dropped, num_sessions.dec() is skipped.
SessionPanic(s) ==
    /\ task[s] = "running"
    /\ task' = TaskOver(s, "panicked")
    /\ permits' = AfterRelease(permits)
    /\ UNCHANGED <<offered, notifQ, notifClosed, ctrlSent, ctrlQ, ctrlReply, svPc,
                   cur, reply, outcome, made, noPermit, hsErrors, gauge, wvars, evars, rvars>>

(***************************************************************************)
(* Wire messages of a session                                              *)
(***************************************************************************)
\* RpcMessageFlags::FIN and RpcMessageFlags::ACK
FlagFIN == 1
FlagACK == 2

\* RpcStatusCode: Ok, and three error codes
StatusOk == 0
StatusNotFound == 2
StatusBadRequest == 4
StatusGeneral == 6

\* RpcServerBuilder::default: minimum_client_deadline, in seconds
MinimumClientDeadline == 1

HasBit(bits, bit) == (bits \div bit) % 2 = 1

\* u8::try_from(decoded_msg.flags) is Ok
FitsU8(bits) == bits < 256

\* RpcMessageFlags::from_bits_truncate: the defined bits of the value
FromBitsTruncate(bits) ==
    (IF HasBit(bits, FlagFIN) THEN FlagFIN ELSE 0)
        + (IF HasBit(bits, FlagACK) THEN FlagACK ELSE 0)

\* RpcMessageFlags::contains / is_fin
Contains(flags, flag) == HasBit(flags, flag)

\* The client deadline MUST be greater or equal to the minimum_client_deadline.
DeadlineTooShortOrEqual(deadline) == deadline <= MinimumClientDeadline
DeadlineTooShort(deadline) == deadline < MinimumClientDeadline

\* (deadline, flags) of the requests a client sends: a deadline below, at and
\* above the minimum; no flag, FIN, ACK, both, a reserved low bit, a bit above
\* the low eight beside FIN and beside ACK.
RequestShapes ==
    {<<0, 0>>, <<0, 1>>, <<0, 2>>, <<1, 0>>, <<2, 0>>, <<1, 1>>, <<1, 2>>,
     <<1, 3>>, <<1, 4>>, <<1, 257>>, <<1, 258>>}

\* What framed.next() can yield beside a decodable request: a frame that does
\* not decode, an I/O error, an I/O error of kind WouldBlock.
OtherInbound == {"malformed", "io_error", "would_block"}

NoFrame == [kind |-> "none", request_id |-> 0, deadline |-> 0, flags |-> 0]

\* The n-th inbound frame; a client numbers its requests.
InboundFrames(n) ==
    {[kind |-> "request", request_id |-> n, deadline |-> s[1], flags |-> s[2]] :
        s \in RequestShapes}
    \cup {[kind |-> k, request_id |-> 0, deadline |-> 0, flags |-> 0] :
            k \in OtherInbound}

\* proto::rpc::RpcResponse
ResponseWithoutId(id, status, flags, payload) ==
    [request_id |-> 0, status |-> status, flags |-> flags, payload |-> payload]
Response(id, status, flags, payload) ==
    [request_id |-> id, status |-> status, flags |-> flags, payload |-> payload]

\* RpcStatus: a code and details
NoStatus == [code |-> StatusOk, details |-> <<>>]
BadRequestStatus == [code |-> StatusBadRequest, details |-> <<104>>]
ServiceErrors ==
    {[code |-> StatusNotFound, details |-> <<102>>],
     [code |-> StatusGeneral, details |-> <<106>>]}

\* The reply to a request whose deadline is below the minimum.
BadRequestFrameNoFin(f) ==
    Response(f.request_id, BadRequestStatus.code, 0, BadRequestStatus.details)
BadRequestFrame(f) ==
    Response(f.request_id, BadRequestStatus.code, FlagFIN, BadRequestStatus.details)

\* The reply to an ACK-flagged request.
AckFrameWithFin(f) == Response(f.request_id, StatusOk, FlagACK + FlagFIN, <<>>)
AckFrame(f) == Response(f.request_id, StatusOk, FlagACK, <<>>)

\* The reply to a request whose service call returned Err(err).
ErrorFrameNoFin(f, err) == Response(f.request_id, err.code, 0, err.details)
ErrorFrame(f, err) == Response(f.request_id, err.code, FlagFIN, err.details)

(***************************************************************************)
(* The response body and its conversion to wire messages                   *)
(***************************************************************************)
Payload(len) == [i \in 1..len |-> i]
PayloadLens == {0, ChunkSize, ChunkSize + 1}

\* Body: a lazy finite sequence of Result<BodyBytes, RpcStatus>; the last
\* message is_finished or is an Err.
BodyItems(mustEnd) ==
    {[ok |-> TRUE, payload |-> Payload(l), finished |-> fin, status |-> NoStatus] :
        l \in PayloadLens, fin \in (IF mustEnd THEN {TRUE} ELSE BOOLEAN)}
    \cup {[ok |-> FALSE, payload |-> <<>>, finished |-> TRUE, status |-> st] :
            st \in ServiceErrors}

IsLast(item) == ~item.ok \/ item.finished

\* into_response
IntoResponseErrWithoutFin(request_id, item) ==
    IF item.ok
    THEN Response(request_id, StatusOk,
                  IF item.finished THEN FlagFIN ELSE 0, item.payload)
    ELSE Response(request_id, item.status.code, 0, item.status.details)
IntoResponseAlwaysFin(request_id, item) ==
    IF item.ok
    THEN Response(request_id, StatusOk, FlagFIN, item.payload)
    ELSE Response(request_id, item.status.code, FlagFIN, item.status.details)
IntoResponse(request_id, item) ==
    IF item.ok
    THEN Response(request_id, StatusOk,
                  IF item.finished THEN FlagFIN ELSE 0, item.payload)
    ELSE Response(request_id, item.status.code, FlagFIN, item.status.details)

MinOf(a, b) == IF a < b THEN a ELSE b
ClearFin(flags) == IF HasBit(flags, FlagFIN) THEN flags - FlagFIN ELSE flags

\* ChunkedResponseIter::new(message), collected: the sub-messages of a message
\* whose payload exceeds the chunk size, else the message itself.
ChunkedResponseIterKeepsFin(message) ==
    LET len == Len(message.payload)
        n == IF len = 0 THEN 1 ELSE (len + ChunkSize - 1) \div ChunkSize
    IN [k \in 1..n |->
           Response(message.request_id, message.status, message.flags,
                    SubSeq(message.payload, (k - 1) * ChunkSize + 1,
                           MinOf(k * ChunkSize, len)))]
ChunkedResponseIter(message) ==
    LET len == Len(message.payload)
        n == IF len = 0 THEN 1 ELSE (len + ChunkSize - 1) \div ChunkSize
    IN [k \in 1..n |->
           Response(message.request_id, message.status,
                    IF k = n THEN message.flags ELSE ClearFin(message.flags),
                    SubSeq(message.payload, (k - 1) * ChunkSize + 1,
                           MinOf(k * ChunkSize, len)))]

(***************************************************************************)
(* ActivePeerRpcService: initial state and the ways a step can end         *)
(***************************************************************************)
SessionInit ==
    /\ sPc = "reading"
    /\ inbox = <<>>
    /\ clientSent = 0
    /\ remoteClosed = FALSE
    /\ framesRead = 0
    /\ request = NoFrame
    /\ handling = "none"
    /\ prevHandling = "none"
    /\ interrupt = NoFrame
    /\ serviceCalled = FALSE
    /\ svcStatus = NoStatus
    /\ outbound = <<>>
    /\ writeFailed = FALSE
    /\ metricsLog = <<>>
    /\ chunks = <<>>
    /\ bodyCount = 0
    /\ bodyDone = FALSE
    /\ closed = FALSE
    /\ runResult = "running"
    /\ runError = "none"
    /\ startError = FALSE

\* handle_request returned Ok(()): run goes back to framed.next().
Continue(how, out, mets) ==
    /\ sPc' = "reading"
    /\ handling' = how
    /\ outbound' = out
    /\ metricsLog' = mets
    /\ chunks' = <<>>
    /\ bodyCount' = 0
    /\ bodyDone' = FALSE
    /\ UNCHANGED <<writeFailed, closed, runResult, runError, startError>>

\* The error run returns after framed.close(): a failure to close is only logged.
ErrorAfterCloseMasked(cause, closeOk) == IF closeOk THEN cause ELSE "close_error"
ErrorAfterClose(cause, closeOk) == cause

\* framed.next() yielded an error or handle_request returned Err: run closes
\* the framed stream and returns the error; start counts it in error_counter.
Fail(how, out, mets, wf) ==
    /\ sPc' = "done"
    /\ handling' = how
    /\ outbound' = out
    /\ metricsLog' = mets
    /\ writeFailed' = wf
    /\ chunks' = <<>>
    /\ bodyCount' = 0
    /\ bodyDone' = FALSE
    /\ closed' = TRUE
    /\ runResult' = "Err"
    /\ \E closeOk \in BOOLEAN :
          runError' = ErrorAfterClose(IF wf THEN "write_error" ELSE how, closeOk)
    /\ startError' = TRUE

\* u8::try_from(flags).unwrap() panicked: the task unwinds; nothing is closed,
\* counted or returned.
Panic(out, mets) ==
    /\ sPc' = "done"
    /\ handling' = "panic"
    /\ outbound' = out
    /\ metricsLog' = mets
    /\ chunks' = <<>>
    /\ bodyCount' = 0
    /\ bodyDone' = FALSE
    /\ runResult' = "panic"
    /\ UNCHANGED <<writeFailed, closed, runError, startError>>

\* self.framed.send(frame).await?; return Ok(())
SendAndReturn(frame, how, out, mets, written) ==
    IF written
    THEN Continue(how, Append(out, frame), mets)
    ELSE Fail(how, Append(out, frame), mets, TRUE)

(***************************************************************************)
(* The client side of the substream                                        *)
(***************************************************************************)
\* The last frame of the response to the request in hand was handed to the
\* transport: the client can have it.
FinWritten ==
    /\ outbound # <<>>
    /\ HasBit(outbound[Len(outbound)].flags, FlagFIN)
    /\ ~writeFailed

\* An inbound frame (or a read error) becomes available to framed.next().
InboundArrives ==
    /\ sPc # "done"
    /\ ~remoteClosed
    /\ clientSent < MaxFrames
    /\ Len(inbox) < InboxCap
    /\ \E f \in InboundFrames(clientSent + 1) : inbox' = Append(inbox, f)
    /\ clientSent' = clientSent + 1
    /\ UNCHANGED <<sPc, remoteClosed, framesRead, request, handling, prevHandling,
                   interrupt, serviceCalled,
                   svcStatus, outbound, writeFailed, metricsLog, chunks, bodyCount,
                   bodyDone, closed, runResult, runError, startError, svars, evars, rvars>>

\* The client closes the substream: framed.next() yields None after what is queued.
RemoteCloses ==
    /\ sPc # "done"
    /\ ~remoteClosed
    /\ remoteClosed' = TRUE
    /\ UNCHANGED <<sPc, inbox, clientSent, framesRead, request, handling,
                   prevHandling, interrupt, serviceCalled, svcStatus, outbound, writeFailed, metricsLog,
                   chunks, bodyCount, bodyDone, closed, runResult, runError, startError, svars, evars, rvars>>

(***************************************************************************)
(* ActivePeerRpcService::run and handle_request                            *)
(***************************************************************************)
\* deadline < minimum_client_deadline: bad_request with FIN, status error counted.
OnBadDeadline(f, written) ==
    /\ SendAndReturn(BadRequestFrame(f), "bad_deadline", <<>>, <<"status_error">>,
                     written)
    /\ serviceCalled' = FALSE
    /\ svcStatus' = NoStatus

\* msg_flags.contains(FIN): return Ok(()).
OnClientFinErr ==
    /\ Fail("client_fin", <<>>, <<>>, FALSE)
    /\ serviceCalled' = FALSE
    /\ svcStatus' = NoStatus
OnClientFin ==
    /\ Continue("client_fin", <<>>, <<>>)
    /\ serviceCalled' = FALSE
    /\ svcStatus' = NoStatus

\* msg_flags.contains(ACK): send the ACK response; return Ok(()).
OnAck(f, written) ==
    /\ SendAndReturn(AckFrame(f), "ack", <<>>, <<>>, written)
    /\ serviceCalled' = FALSE
    /\ svcStatus' = NoStatus

\* self.service.call(req) under time::timeout(deadline, ..)
CallService ==
    /\ sPc' = "service_call"
    /\ handling' = "service_call"
    /\ serviceCalled' = TRUE
    /\ svcStatus' = NoStatus
    /\ outbound' = <<>>
    /\ metricsLog' = <<>>
    /\ chunks' = <<>>
    /\ bodyCount' = 0
    /\ bodyDone' = FALSE
    /\ UNCHANGED <<writeFailed, closed, runResult, runError, startError>>

\* handle_request up to its first service await, for a frame that decoded.
HandleRequest(f) ==
    IF DeadlineTooShort(f.deadline)
    THEN \E written \in BOOLEAN : OnBadDeadline(f, written)
    ELSE IF ~FitsU8(f.flags)
    THEN Panic(<<>>, <<>>) /\ serviceCalled' = FALSE /\ svcStatus' = NoStatus
    ELSE IF Contains(FromBitsTruncate(f.flags), FlagFIN)
    THEN OnClientFin
    ELSE IF Contains(FromBitsTruncate(f.flags), FlagACK)
    THEN \E written \in BOOLEAN : OnAck(f, written)
    ELSE CallService

\* RpcRequest::decode(&mut request)? failed: handle_request returns the error.
OnDecodeErrorIgnored ==
    /\ Continue("decode_error", <<>>, <<>>)
    /\ serviceCalled' = FALSE /\ svcStatus' = NoStatus
OnDecodeError ==
    /\ Fail("decode_error", <<>>, <<>>, FALSE)
    /\ serviceCalled' = FALSE /\ svcStatus' = NoStatus

\* run: framed.next() yielded Some(result).
SessionRead ==
    /\ sPc = "reading"
    /\ inbox # <<>>
    /\ LET f == Head(inbox) IN
          /\ inbox' = Tail(inbox)
          /\ request' = f
          /\ framesRead' = framesRead + 1
          /\ prevHandling' = handling
          /\ interrupt' = NoFrame
          /\ CASE f.kind \in {"io_error", "would_block"} ->
                    /\ Fail("frame_error", <<>>, <<>>, FALSE)
                    /\ serviceCalled' = FALSE /\ svcStatus' = NoStatus
               [] f.kind = "malformed" -> OnDecodeError
               [] OTHER -> HandleRequest(f)
    /\ UNCHANGED <<clientSent, remoteClosed, svars, evars, rvars>>

\* A run that takes no notice of the end of the inbound stream: it keeps
\* waiting for a frame.
SessionStreamEndUnnoticed ==
    /\ sPc = "reading"
    /\ inbox = <<>>
    /\ remoteClosed
    /\ UNCHANGED vars

\* run: framed.next() yielded None; self.framed.close().await?; Ok(())
SessionStreamEnd ==
    /\ sPc = "reading"
    /\ inbox = <<>>
    /\ remoteClosed
    /\ sPc' = "done"
    /\ closed' = TRUE
    /\ \E closeOk \in BOOLEAN :
          /\ runResult' = IF closeOk THEN "Ok" ELSE "Err"
          /\ runError' = IF closeOk THEN "none" ELSE "close_error"
          /\ startError' = ~closeOk
    /\ UNCHANGED <<inbox, clientSent, remoteClosed, framesRead, request, handling,
                   prevHandling, interrupt, serviceCalled, svcStatus, outbound,
                   writeFailed, metricsLog, chunks, bodyCount, bodyDone, svars, evars, rvars>>

\* time::timeout(deadline, service_call) elapsed: counted, nothing is sent.
OnServiceTimeoutErr ==
    Fail("service_timeout", outbound,
         Append(metricsLog, "ServiceCallExceededDeadline"), FALSE)
OnServiceTimeoutReply ==
    Continue("service_timeout",
             Append(outbound, Response(request.request_id, 1, FlagFIN, <<>>)),
             Append(metricsLog, "ServiceCallExceededDeadline"))
OnServiceTimeout ==
    Continue("service_timeout", outbound,
             Append(metricsLog, "ServiceCallExceededDeadline"))

\* The service returned Err(err): FIN-flagged error response, status error counted.
OnServiceError(err, written) ==
    SendAndReturn(ErrorFrame(request, err), "service_error", outbound,
                  Append(metricsLog, "status_error"), written)

\* The service returned Ok(body): process_body starts its loop.
OnServiceOk ==
    /\ sPc' = "check_interruptions"
    /\ handling' = "streaming"
    /\ chunks' = <<>>
    /\ bodyCount' = 0
    /\ bodyDone' = FALSE
    /\ UNCHANGED <<outbound, writeFailed, metricsLog, closed, runResult, runError, startError>>

\* handle_request: the service call completes or its deadline passes.
ServiceReturns ==
    /\ sPc = "service_call"
    /\ \/ OnServiceTimeout /\ svcStatus' = svcStatus
       \/ \E err \in ServiceErrors, written \in BOOLEAN :
             OnServiceError(err, written) /\ svcStatus' = err
       \/ OnServiceOk /\ svcStatus' = svcStatus
    /\ UNCHANGED <<inbox, clientSent, remoteClosed, framesRead, request,
                   prevHandling, interrupt, serviceCalled, svars, evars, rvars>>

(***************************************************************************)
(* ActivePeerRpcService::process_body and check_interruptions              *)
(***************************************************************************)
\* process_body: check_interruptions returned Ok(()).
NotInterrupted ==
    /\ sPc' = "stream_next"
    /\ UNCHANGED <<handling, outbound, writeFailed, metricsLog, chunks, bodyCount,
                   bodyDone, closed, runResult, runError, startError>>

\* check_interruptions polls the inbound half once; process_body acts on it.
CheckInterruptions ==
    /\ sPc = "check_interruptions"
    /\ IF inbox # <<>>
       THEN LET f == Head(inbox) IN
            /\ inbox' = Tail(inbox)
              /\ interrupt' = f
            /\ CASE f.kind = "malformed" ->
                       Fail("unexpected_malformed", outbound, metricsLog, FALSE)
                 [] f.kind = "io_error" ->
                       Fail("interrupt_io_error", outbound, metricsLog, FALSE)
                 [] f.kind = "would_block" -> NotInterrupted
                 [] OTHER ->
                       IF ~FitsU8(f.flags)
                       THEN Panic(outbound, metricsLog)
                       ELSE IF Contains(FromBitsTruncate(f.flags), FlagFIN)
                       THEN Continue("interrupted", outbound, metricsLog)
                       ELSE Fail("unexpected_message", outbound, metricsLog, FALSE)
       ELSE /\ inbox' = inbox
            /\ interrupt' = interrupt
            /\ IF remoteClosed
               THEN Fail("closed_by_remote", outbound, metricsLog, FALSE)
               ELSE NotInterrupted
    /\ UNCHANGED <<clientSent, remoteClosed, framesRead, request, prevHandling,
                   serviceCalled, svcStatus, svars, evars, rvars>>

\* stream.next() over the flattened stream: the sub-messages of a message come
\* out first to last.
NextToSendLast(msgs) == msgs[Len(msgs)]
NextToSend(msgs) == Head(msgs)

\* self.framed.send(msg).await? inside the loop of process_body.
SendBody(msgs, bc, bd, mets, written) ==
    IF written
    THEN /\ sPc' = "check_interruptions"
         /\ outbound' = Append(outbound, NextToSend(msgs))
         /\ chunks' = Tail(msgs)
         /\ bodyCount' = bc
         /\ bodyDone' = bd
         /\ metricsLog' = mets
         /\ UNCHANGED <<handling, writeFailed, closed, runResult, runError, startError>>
    ELSE Fail("streaming", Append(outbound, NextToSend(msgs)), mets, TRUE)

\* time::timeout(deadline, stream.next()) elapsed: counted, the loop is left.
OnReadDeadlineErr ==
    Fail("read_deadline", outbound,
         Append(metricsLog, "ReadStreamExceededDeadline"), FALSE)
OnReadDeadline ==
    Continue("read_deadline", outbound,
             Append(metricsLog, "ReadStreamExceededDeadline"))

\* time::timeout(deadline, stream.next()): the next sub-message, the end of the
\* stream, or the deadline.
StreamNext ==
    /\ sPc = "stream_next"
    /\ IF chunks # <<>>
       THEN \E written \in BOOLEAN :
               SendBody(chunks, bodyCount, bodyDone, metricsLog, written)
       ELSE IF bodyDone
       THEN Continue("complete", outbound, metricsLog)
       ELSE \/ OnReadDeadline
            \/ \E item \in BodyItems(bodyCount + 1 >= MaxBodyItems),
                  written \in BOOLEAN :
                  LET message == IntoResponse(request.request_id, item) IN
                  SendBody(ChunkedResponseIter(message), bodyCount + 1, IsLast(item),
                           IF message.status # StatusOk
                           THEN Append(metricsLog, "status_error")
                           ELSE metricsLog,
                           written)
    /\ UNCHANGED <<inbox, clientSent, remoteClosed, framesRead, request,
                   prevHandling, interrupt, serviceCalled, svcStatus, svars, evars, rvars>>

(***************************************************************************)
(* BoundedExecutor used through its whole interface: try_spawn and spawn   *)
(* called by any number of clients, tasks that complete, panic or are      *)
(* aborted, spawn futures dropped before they return (ExecSpec).           *)
(* The semaphore queues the acquires that wait, first come first served;   *)
(* a permit given back while an acquire waits is handed to the acquire at  *)
(* the head of the queue and never shows in available_permits().           *)
(***************************************************************************)
Jobs == 1..MaxJobs

\* Jobs whose task exists and holds the permit it was spawned with.
Holding == {j \in Jobs : job[j] \in {"spawned", "running"}}

\* Jobs whose task is over.
Ended == {j \in Jobs : job[j] \in {"finished", "panicked", "aborted"}}

\* spawn futures to which a permit was handed and that were not polled since.
Assigned == {j \in Jobs : job[j] = "assigned"}

ExecIdle ==
    /\ job = [j \in Jobs |-> "none"]
    /\ via = [j \in Jobs |-> "none"]
    /\ waitQ = <<>>
    /\ blockers = [j \in Jobs |-> {}]
    /\ released = [j \in Jobs |-> 0]
    /\ freeAtCall = [j \in Jobs |-> -1]

\* Jobs are numbered in the order of their calls.
IsNextJob(j) == job[j] = "none" /\ (IF j = 1 THEN TRUE ELSE job[j - 1] # "none")

\* do_spawn: the task is created owning the permit.
DoSpawn(j) == job' = [job EXCEPT ![j] = "spawned"]

\* BoundedExecutor::try_spawn
TrySpawnCall(j) ==
    /\ IsNextJob(j)
    /\ via' = [via EXCEPT ![j] = "try_spawn"]
    /\ freeAtCall' = [freeAtCall EXCEPT ![j] = NumAvailable]
    /\ IF TryAcquireOk(permits)
       THEN /\ permits' = AfterAcquire(permits)
            /\ DoSpawn(j)
       ELSE /\ permits' = permits
            /\ job' = [job EXCEPT ![j] = "rejected"]
    /\ UNCHANGED <<waitQ, blockers, released, snp, wvars, rvars>>

\* The first poll of acquire_owned finds a permit.
AcquireReadyAlways(p) == TRUE
AcquireReady(p) == p > 0

\* BoundedExecutor::spawn, awaited: acquire_owned takes a free permit and the
\* task is spawned, or the acquire queues up.
SpawnCall(j) ==
    /\ IsNextJob(j)
    /\ via' = [via EXCEPT ![j] = "spawn"]
    /\ freeAtCall' = [freeAtCall EXCEPT ![j] = NumAvailable]
    /\ blockers' = [blockers EXCEPT ![j] =
                       IF Cardinality(Holding) = MaxAvailable THEN Holding ELSE {}]
    /\ IF AcquireReady(permits)
       THEN /\ permits' = AfterAcquire(permits)
            /\ DoSpawn(j)
            /\ waitQ' = waitQ
       ELSE /\ permits' = permits
            /\ job' = [job EXCEPT ![j] = "waiting"]
            /\ waitQ' = Append(waitQ, j)
    /\ UNCHANGED <<released, snp, wvars, rvars>>

\* spawn is polled again after a permit was handed to its acquire: do_spawn.
SpawnResume(j) ==
    /\ job[j] = "assigned"
    /\ DoSpawn(j)
    /\ UNCHANGED <<permits, via, waitQ, blockers, released, freeAtCall, snp, wvars, rvars>>

\* The acquire a returned permit goes to (0: none waits).
NextWaiterNone(q) == 0
NextWaiter(q) == IF q = <<>> THEN 0 ELSE Head(q)

\* A permit of job j goes back to the semaphore, j ending as `end`.
GiveBackNothing(j, end) ==
    /\ job' = [job EXCEPT ![j] = end]
    /\ UNCHANGED <<permits, waitQ, released>>
GiveBack(j, end) ==
    /\ released' = [released EXCEPT ![j] = @ + 1]
    /\ IF NextWaiter(waitQ) # 0
       THEN /\ job' = [job EXCEPT ![j] = end, ![NextWaiter(waitQ)] = "assigned"]
            /\ waitQ' = Tail(waitQ)
            /\ permits' = permits
       ELSE /\ job' = [job EXCEPT ![j] = end]
            /\ waitQ' = waitQ
            /\ permits' = AfterRelease(permits)

Without(q, j) == SelectSeq(q, LAMBDA x : x # j)

\* Dropping an acquire to which a permit was handed already.
DropAssignedLeak(j) ==
    /\ job' = [job EXCEPT ![j] = "dropped"]
    /\ UNCHANGED <<permits, waitQ, released>>
DropAssigned(j) == GiveBack(j, "dropped")

\* The future returned by spawn is dropped before it returned.
SpawnDrop(j) ==
    /\ job[j] \in {"waiting", "assigned"}
    /\ IF job[j] = "waiting"
       THEN /\ job' = [job EXCEPT ![j] = "dropped"]
            /\ waitQ' = Without(waitQ, j)
            /\ UNCHANGED <<permits, released>>
       ELSE DropAssigned(j)
    /\ UNCHANGED <<via, blockers, freeAtCall, snp, wvars, rvars>>

\* The runtime polls the spawned task for the first time.
TaskBegin(j) ==
    /\ job[j] = "spawned"
    /\ job' = [job EXCEPT ![j] = "running"]
    /\ UNCHANGED <<permits, via, waitQ, blockers, released, freeAtCall, snp, wvars, rvars>>

\* future.await returned: drop(permit); ret
TaskFinish(j) ==
    /\ job[j] = "running"
    /\ GiveBack(j, "finished")
    /\ UNCHANGED <<via, blockers, freeAtCall, snp, wvars, rvars>>

\* future.await panicked: the task unwinds and drops what it owns.
TaskPanic(j) ==
    /\ job[j] = "running"
    /\ GiveBack(j, "panicked")
    /\ UNCHANGED <<via, blockers, freeAtCall, snp, wvars, rvars>>

\* The task is cancelled (JoinHandle::abort, runtime shutdown): its future,
\* polled or not, is dropped with the permit it owns.
TaskAbort(j) ==
    /\ job[j] \in {"spawned", "running"}
    /\ GiveBack(j, "aborted")
    /\ UNCHANGED <<via, blockers, freeAtCall, snp, wvars, rvars>>

(***************************************************************************)
(* One body item taken through into_response and ChunkedResponseIter       *)
(* (ResponseSpec): the two conversions process_body chains on the response *)
(* body, applied to every item and request id of a bounded set.            *)
(***************************************************************************)
NoBodyResult == [request_id |-> 0, item |-> [ok |-> TRUE, payload |-> <<>>,
                                             finished |-> FALSE, status |-> NoStatus]]
NoMessage == Response(0, StatusOk, 0, <<>>)

\* Body items with payloads of zero bytes up to what makes three chunks.
AnyBodyItems ==
    {[ok |-> TRUE, payload |-> Payload(l), finished |-> fin, status |-> NoStatus] :
        l \in 0..(2 * ChunkSize + 1), fin \in BOOLEAN}
    \cup {[ok |-> FALSE, payload |-> <<>>, finished |-> TRUE, status |-> st] :
            st \in ServiceErrors}

BodyResults == {[request_id |-> id, item |-> it] : id \in 1..MaxFrames, it \in AnyBodyItems}

ResponseIdle ==
    /\ bodyResult = NoBodyResult
    /\ rpcResponse = NoMessage
    /\ subMessages = <<>>

\* body.into_message() yields an item for the request.
NextBodyItem ==
    /\ bodyResult = NoBodyResult \/ subMessages # <<>>
    /\ bodyResult' \in BodyResults
    /\ rpcResponse' = NoMessage
    /\ subMessages' = <<>>
    /\ UNCHANGED <<svars, wvars, evars>>

\* .map(|result| into_response(request_id, result))
ApplyIntoResponse ==
    /\ bodyResult # NoBodyResult
    /\ rpcResponse = NoMessage
    /\ rpcResponse' = IntoResponse(bodyResult.request_id, bodyResult.item)
    /\ UNCHANGED <<bodyResult, subMessages, svars, wvars, evars>>

\* .flat_map(move |message| stream::iter(ChunkedResponseIter::new(message)))
ApplyChunking ==
    /\ rpcResponse # NoMessage
    /\ subMessages = <<>>
    /\ subMessages' = ChunkedResponseIter(rpcResponse)
    /\ UNCHANGED <<bodyResult, rpcResponse, svars, wvars, evars>>

ResponseNext ==
    \/ NextBodyItem
    \/ ApplyIntoResponse
    \/ ApplyChunking

\* A session that was admitted and has begun: the state of Spec after the first
\* substream was accepted and its task polled.
AdmittedInit ==
    /\ offered = 1
    /\ notifQ = <<>>
    /\ notifClosed = FALSE
    /\ ctrlSent = 0
    /\ ctrlQ = <<>>
    /\ ctrlReply = [c \in ControlIds |-> -1]
    /\ svPc = "select"
    /\ cur = 0
    /\ permits = MaxSessions - 1
    /\ task = [s \in Substreams |-> IF s = 1 THEN "running" ELSE "none"]
    /\ reply = [s \in Substreams |-> IF s = 1 THEN "Accept" ELSE "none"]
    /\ outcome = [s \in Substreams |-> IF s = 1 THEN "Ok" ELSE "pending"]
    /\ made = [s \in Substreams |-> s = 1]
    /\ noPermit = [s \in Substreams |-> FALSE]
    /\ hsErrors = [s \in Substreams |-> 0]
    /\ gauge = 1

SessionSpecInit == AdmittedInit /\ SessionInit /\ ExecIdle /\ ResponseIdle

SessionNext ==
    \/ InboundArrives
    \/ RemoteCloses
    \/ SessionRead
    \/ SessionStreamEnd
    \/ ServiceReturns
    \/ CheckInterruptions
    \/ StreamNext

SessionSpec == SessionSpecInit /\ [][SessionNext]_vars

\* A client that keeps to one request at a time: it writes its first request
\* to the fresh substream, and every further one only once the final,
\* FIN-flagged frame of the response to the previous one was written to it.
NextRequestArrives ==
    /\ inbox = <<>>
    /\ clientSent = 0 \/ FinWritten
    /\ InboundArrives
    /\ inbox'[1].kind = "request"

\* The session worker serving such a client.
OneAtATimeNext ==
    \/ NextRequestArrives
    \/ RemoteCloses
    \/ SessionRead
    \/ SessionStreamEnd
    \/ ServiceReturns
    \/ CheckInterruptions
    \/ StreamNext

OneAtATimeSpec == SessionSpecInit /\ [][OneAtATimeNext]_vars

\* The client of a run checked for termination sends MaxLiveFrames frames.
LiveInboundArrives == clientSent < MaxLiveFrames /\ InboundArrives

\* The future of the session task is over (start() returned or panicked): the
\* task ends, which drops the permit it holds.
SessionTaskEnds ==
    /\ sPc = "done"
    /\ IF runResult = "panic" THEN SessionPanic(1) ELSE SessionFinish(1)

\* The session worker together with the end of its task.
SessionLiveNext ==
    \/ LiveInboundArrives
    \/ RemoteCloses
    \/ SessionRead
    \/ SessionStreamEnd
    \/ ServiceReturns
    \/ CheckInterruptions
    \/ StreamNext
    \/ SessionTaskEnds

\* The runtime keeps polling the session task: a read that is ready is taken,
\* the service call returns or its deadline fires, the response stream yields
\* or the read deadline fires, and the finished task is dropped.
SessionFairness ==
    /\ WF_vars(SessionRead)
    /\ WF_vars(SessionStreamEnd)
    /\ WF_vars(ServiceReturns)
    /\ WF_vars(CheckInterruptions)
    /\ WF_vars(StreamNext)
    /\ WF_vars(SessionTaskEnds)

SessionLiveSpec == SessionSpecInit /\ [][SessionLiveNext]_vars /\ SessionFairness

Init == ServerInit /\ SessionInit /\ ExecIdle /\ ResponseIdle

ResponseSpec == Init /\ [][ResponseNext]_vars

Next ==
    \/ OfferSubstream
    \/ CloseNotifications
    \/ SendControlRequest
    \/ ServeControlRequest
    \/ ServeNotificationsEnded
    \/ ServeNotification
    \/ RejectFull
    \/ MakeService
    \/ RejectProtocol
    \/ PerformHandshake
    \/ TrySpawn
    \/ \E s \in Substreams : SessionBegin(s)
    \/ \E s \in Substreams : SessionFinish(s)
    \/ \E s \in Substreams : SessionPanic(s)

Spec == Init /\ [][Next]_vars

ExecNext ==
    \/ \E j \in Jobs : TrySpawnCall(j)
    \/ \E j \in Jobs : SpawnCall(j)
    \/ \E j \in Jobs : SpawnResume(j)
    \/ \E j \in Jobs : SpawnDrop(j)
    \/ \E j \in Jobs : TaskBegin(j)
    \/ \E j \in Jobs : TaskFinish(j)
    \/ \E j \in Jobs : TaskPanic(j)
    \/ \E j \in Jobs : TaskAbort(j)

ExecSpec == Init /\ [][ExecNext]_vars

\* The executor when every task runs to its completion: the steps of ExecSpec
\* without panics and aborts.
ExecLiveNext ==
    \/ \E j \in Jobs : TrySpawnCall(j)
    \/ \E j \in Jobs : SpawnCall(j)
    \/ \E j \in Jobs : SpawnResume(j)
    \/ \E j \in Jobs : SpawnDrop(j)
    \/ \E j \in Jobs : TaskBegin(j)
    \/ \E j \in Jobs : TaskFinish(j)

\* The runtime polls the futures it woke and the tasks it spawned, and every
\* running task finishes.
ExecFairness ==
    /\ WF_vars(\E j \in Jobs : SpawnResume(j))
    /\ WF_vars(\E j \in Jobs : TaskBegin(j))
    /\ WF_vars(\E j \in Jobs : TaskFinish(j))

ExecLiveSpec == Init /\ [][ExecLiveNext]_vars /\ ExecFairness

(***************************************************************************)
(* Properties of the supervisor and the executor (checked under Spec).     *)
(***************************************************************************)
Handled(s) == outcome[s] # "pending"
Spawned(s) == task[s] # "none"
Terminated(s) == task[s] \in {"finished", "panicked"}

\* The accounting of the permits in the server, where sessions are only ever
\* spawned through try_spawn.
ServerPermitAccounting ==
    /\ NumAvailable + Cardinality(Unfinished) = MaxAvailable
    /\ MaxAvailable = MaxSessions
    /\ Cardinality(Unfinished) <= MaxSessions
    /\ NumAvailable >= 0

\* The scenario of C2: exactly N + 1 substreams were offered, every attempt
\* is over and no admitted session has terminated.
C2_Scenario ==
    /\ offered = MaxSessions + 1
    /\ svPc = "select" /\ notifQ = <<>>
    /\ \A s \in 1..offered : Handled(s)
    /\ \A s \in Substreams : ~Terminated(s)

C2_Result ==
    /\ Cardinality({s \in Substreams : Spawned(s)}) = MaxSessions
    /\ \E s \in 1..offered :
          /\ ~Spawned(s)
          /\ reply[s] = "Reject_NoSessionsAvailable"
          /\ \A t \in (1..offered) \ {s} : Spawned(t)

C3_AcceptThenSpawn ==
    /\ svPc = "try_spawn" => TryAcquireOk(permits)
    /\ \A s \in Substreams :
          reply[s] = "Accept" =>
             /\ outcome[s] # "MaximumSessionsReached"
             /\ Handled(s) => (outcome[s] = "Ok" /\ Spawned(s))

\* C3 witness: a session was accepted and spawned while another substream had
\* been turned away for lack of permits and a session ended in between.
C3_Witness ==
    \E s, t, u \in Substreams :
        /\ reply[s] = "Accept" /\ outcome[s] = "Ok" /\ Spawned(s)
        /\ noPermit[t] /\ Handled(t)
        /\ Terminated(u)
        /\ t < s

\* C4 as claimed: with no free permit at can_spawn, the attempt sends
\* Reject{NoSessionsAvailable}, calls no factory, accepts nothing, spawns
\* nothing and ends with MaximumSessionsReached.
C4_Original ==
    \A s \in Substreams :
        (noPermit[s] /\ Handled(s)) =>
            /\ reply[s] = "Reject_NoSessionsAvailable"
            /\ ~made[s]
            /\ ~Spawned(s)
            /\ outcome[s] = "MaximumSessionsReached"

\* C4 amended: with no free permit at can_spawn, the attempt calls no factory,
\* accepts nothing and spawns nothing; it ends with MaximumSessionsReached when
\* the reject was written, and with the handshake's error when writing the
\* reject failed.
C4_RejectWhenFull ==
    \A s \in Substreams :
        noPermit[s] =>
            /\ ~made[s]
            /\ ~Spawned(s)
            /\ reply[s] \in {"none", "Reject_NoSessionsAvailable"}
            /\ Handled(s) =>
                  \/ /\ reply[s] = "Reject_NoSessionsAvailable"
                     /\ outcome[s] = "MaximumSessionsReached"
                  \/ /\ reply[s] = "none"
                     /\ outcome[s] = "HandshakeError"
            /\ (~Handled(s)) => (cur = s /\ svPc = "reject_full" /\ reply[s] = "none")

C4_Witness ==
    \E s \in Substreams :
        /\ noPermit[s]
        /\ reply[s] = "Reject_NoSessionsAvailable"
        /\ outcome[s] = "MaximumSessionsReached"

\* C11 as claimed: when serve has returned, every GetNumActiveSessions request
\* that was queued on the control channel before the notification stream ended
\* has received its reply.
C11_Original ==
    svPc = "done" => \A c \in 1..ctrlSent : ctrlReply[c] # -1

\* C12: the reply to GetNumActiveSessions is max_sessions minus the available
\* permits at the moment the request is handled, which is the number of session
\* tasks spawned and not yet finished; it lies between 0 and max_sessions.
C12_NumActiveSessions ==
    [][\A c \in ControlIds :
          ctrlReply'[c] # ctrlReply[c] =>
              /\ ctrlReply'[c] = MaxSessions - NumAvailable
              /\ ctrlReply'[c] = Cardinality(Unfinished)
              /\ ctrlReply'[c] \in 0..MaxSessions]_vars

\* C12 witness: a request was answered with the number of live sessions, one,
\* after another session had already ended.
C12_Witness ==
    /\ \E c \in ControlIds : ctrlReply[c] = 1
    /\ Cardinality(Unfinished) = 1
    /\ ctrlQ = <<>>
    /\ \E s \in Substreams : Terminated(s)

\* The positions of serve: in select!, inside one admission attempt, returned Ok.
ServePositions ==
    {"select", "reject_full", "make_service", "reject_protocol", "handshake",
     "try_spawn", "done"}

\* C23: a failed admission never makes serve return or fail. Every attempt,
\* whatever it ended with, leaves the supervisor in its select!; serve returns
\* only from the select!, when the notification stream has ended, and with Ok.
C23_AdmissionErrorsIsolated ==
    /\ [](svPc \in ServePositions)
    /\ [][(cur # 0 /\ cur' = 0) => (svPc' = "select" /\ outcome'[cur] # "pending")]_vars
    /\ [][(svPc # "done" /\ svPc' = "done")
            => (svPc = "select" /\ notifClosed /\ notifQ = <<>>)]_vars

\* C23 witness: two admissions failed, a later substream was admitted, a
\* control request was answered after that, and serve has returned.
C23_Witness ==
    /\ outcome[1] = "MakeServiceError"
    /\ outcome[2] = "HandshakeError"
    /\ outcome[3] = "Ok"
    /\ \E c \in ControlIds : ctrlReply[c] = 1
    /\ svPc = "done"

\* The step in which the session of substream s ends: run returned Ok or an
\* error (frame error, decode failure, interruption error, write failure), or
\* the task panicked.
SessionEnds(s) == task[s] = "running" /\ Terminated(s)'

\* At the end of session s nothing of the other sessions and of the supervisor
\* changes.
OthersUntouched(s) ==
    /\ \A o \in Substreams \ {s} : task'[o] = task[o]
    /\ UNCHANGED <<reply, outcome, made, noPermit, hsErrors>>
    /\ UNCHANGED <<offered, notifQ, notifClosed, ctrlSent, ctrlQ, ctrlReply, svPc, cur>>

\* C24 as claimed: when a session ends, the only shared state that changes is
\* that its permit is returned.
C24_Original ==
    [][\A s \in Substreams :
          SessionEnds(s) =>
              (OthersUntouched(s) /\ permits' = permits + 1 /\ gauge' = gauge)]_vars

\* C24: when a session ends, no other session's state or outcome and nothing
\* of the supervisor changes; the shared state that changes is the permit
\* count, which gets the session's permit back, and the num_sessions gauge,
\* which is decremented when start returned and left alone when it panicked.
C24_SessionsIndependent ==
    [][\A s \in Substreams :
          SessionEnds(s) =>
              /\ OthersUntouched(s)
              /\ permits' = permits + 1
              /\ gauge' = IF task'[s] = "finished" THEN gauge - 1 ELSE gauge]_vars

\* C24 witness: one session has ended while another is still running.
C24_Witness ==
    \E s, o \in Substreams :
        /\ s # o
        /\ Terminated(s)
        /\ task[o] = "running"
        /\ permits = MaxSessions - 1

\* The handshake rejections the server sends.
Rejections ==
    {"Reject_NoSessionsAvailable", "Reject_ProtocolNotSupported",
     "Reject_UnsupportedVersion"}

\* C26 as claimed: every handshake rejection sent by the server increments the
\* handshake-error counter of that peer and protocol.
C26_Original ==
    \A s \in Substreams :
        (Handled(s) /\ reply[s] \in Rejections) => hsErrors[s] = 1

\* C26 for what the code counts: the handshake-error counter is incremented
\* exactly for the attempts that ended with a HandshakeError, among them the
\* rejection sent during version negotiation.
C26_CountsHandshakeErrors ==
    \A s \in Substreams :
        /\ hsErrors[s] = IF outcome[s] = "HandshakeError" THEN 1 ELSE 0
        /\ (Handled(s) /\ reply[s] = "Reject_UnsupportedVersion") => hsErrors[s] = 1

\* C26 witness: one substream was rejected because no session was available,
\* one because the protocol is not supported; neither was counted.
C26_Witness ==
    \E s, o \in Substreams :
        /\ reply[s] = "Reject_NoSessionsAvailable" /\ Handled(s) /\ hsErrors[s] = 0
        /\ reply[o] = "Reject_ProtocolNotSupported" /\ Handled(o) /\ hsErrors[o] = 0

\* Session tasks that have started and not terminated; tasks that panicked.
RunningSessions == {s \in Substreams : task[s] = "running"}
PanickedSessions == {s \in Substreams : task[s] = "panicked"}

\* C27 as claimed: in every state the active-sessions gauge equals the number
\* of session tasks that have started and not yet terminated, whatever made
\* the others end.
C27_Original == gauge = Cardinality(RunningSessions)

\* C27 for what the code does: the gauge counts the running session tasks and
\* those that ended by a panic, whose decrement was skipped.
C27_GaugeCountsRunningAndPanicked ==
    gauge = Cardinality(RunningSessions) + Cardinality(PanickedSessions)

\* C27 witness: no session is running, one has panicked, and the gauge shows 1.
C27_Witness ==
    /\ RunningSessions = {}
    /\ Unfinished = {}
    /\ Cardinality(PanickedSessions) = 1
    /\ gauge = 1

\* The step the supervisor takes after the service factory failed.
AfterFactoryError == svPc = "reject_protocol" /\ svPc' # svPc

\* Nothing was spawned in the step and no permit taken.
NothingSpawned == task' = task /\ task[cur] = "none" /\ permits' = permits

\* C34 as claimed: after a factory error the supervisor sends the reject
\* ProtocolNotSupported, spawns nothing, and the attempt ends with the
\* factory's error.
C34_Original ==
    [][AfterFactoryError =>
          /\ cur' = 0
          /\ reply'[cur] = "Reject_ProtocolNotSupported"
          /\ outcome'[cur] = "MakeServiceError"
          /\ NothingSpawned]_vars

\* C34: after a factory error the attempt ends without an Accept and without a
\* session. If the reject ProtocolNotSupported was written the attempt ends
\* with the factory's error and the handshake-error counter is left alone; if
\* the write failed nothing was sent, the attempt ends with the handshake
\* error and that is counted.
C34_FactoryErrorRejects ==
    [][AfterFactoryError =>
          /\ cur' = 0
          /\ NothingSpawned
          /\ \/ /\ reply'[cur] = "Reject_ProtocolNotSupported"
                /\ outcome'[cur] = "MakeServiceError"
                /\ hsErrors' = hsErrors
             \/ /\ reply'[cur] = "none"
                /\ outcome'[cur] = "HandshakeError"
                /\ hsErrors'[cur] = hsErrors[cur] + 1]_vars

\* C34 witness: while a session runs, the factory failed for a later substream;
\* it was sent the reject and nothing was spawned for it.
C34_Witness ==
    \E s \in Substreams :
        /\ s > 1
        /\ task[1] = "running"
        /\ made[s]
        /\ outcome[s] = "MakeServiceError"
        /\ reply[s] = "Reject_ProtocolNotSupported"
        /\ task[s] = "none"

\* serve returns.
ServeReturns == svPc # "done" /\ svPc' = "done"

\* C35: sessions outlive the supervisor. The return of serve touches no
\* session task and no permit; after it a spawned task can still begin and a
\* running one can still end, and a session that ends, before or after,
\* gives its permit back in that step and never again.
C35_SessionsOutliveSupervisor ==
    /\ [][ServeReturns => (task' = task /\ permits' = permits)]_vars
    /\ [][\A s \in Substreams :
             /\ SessionEnds(s) => permits' = permits + 1
             /\ Terminated(s) => task'[s] = task[s]]_vars
    /\ [](svPc = "done" =>
            /\ ServerPermitAccounting
            /\ \A s \in Substreams :
                  /\ task[s] = "spawned" => ENABLED SessionBegin(s)
                  /\ task[s] = "running" => ENABLED SessionFinish(s))

\* C35 witness: serve has returned; one session is still running and holds
\* its permit, another has ended and its permit is free.
C35_Witness ==
    /\ svPc = "done"
    /\ \E s, o \in Substreams :
          /\ task[s] = "running"
          /\ task[o] = "finished"
    /\ permits = MaxSessions - 1

\* A step of the supervisor inside an admission attempt, other than the
\* try_spawn that succeeds.
FailingAttemptStep ==
    /\ svPc # svPc' \/ cur # cur'
    /\ svPc # "done" /\ svPc' # "done"
    /\ IF cur = 0 THEN TRUE ELSE outcome'[cur] # "Ok"

\* The attempts that ended with an error.
Failed(s) == Handled(s) /\ outcome[s] # "Ok"

\* C37: a failed admission leaves the executor as it was. No step of an
\* attempt other than the successful try_spawn changes the available permits
\* or any session task, so an attempt that returns an error has changed
\* neither; no task exists for its substream.
C37_FailedAdmissionLeavesExecutor ==
    /\ [][FailingAttemptStep => (permits' = permits /\ task' = task)]_vars
    /\ [](\A s \in Substreams : Failed(s) => task[s] = "none")
    /\ []ServerPermitAccounting

\* C37 witness: with one session running, three admissions failed, one for
\* each cause but the full executor; the one permit is still taken, the other
\* still free.
C37_Witness ==
    /\ task[1] = "running"
    /\ \E s \in Substreams : Failed(s) /\ outcome[s] = "MakeServiceError"
    /\ \E s \in Substreams : Failed(s) /\ reply[s] = "Reject_UnsupportedVersion"
    /\ \E s \in Substreams : Failed(s) /\ outcome[s] = "HandshakeError" /\ reply[s] = "none"
    /\ permits = MaxSessions - 1
    /\ Cardinality(Unfinished) = 1

\* The substreams taken off the notification stream whose admission attempt
\* has not returned.
InAttempt ==
    {s \in 1..offered :
        /\ ~Handled(s)
        /\ \A i \in 1..Len(notifQ) : notifQ[i] # s}

\* The supervisor takes the next notification; it answers a control request.
TakesNotification == notifQ # <<>> /\ notifQ' = Tail(notifQ)
AnswersControl == ctrlReply' # ctrlReply

\* C38: the supervisor handles one event at a time. At most one admission
\* attempt is in progress, that of cur; the next substream is taken off the
\* notification stream, and a control request answered, only when no attempt
\* is in progress.
C38_OneEventAtATime ==
    /\ [](/\ Cardinality(InAttempt) <= 1
          /\ InAttempt = (IF cur = 0 THEN {} ELSE {cur})
          /\ (cur = 0) <=> (svPc \in {"select", "done"}))
    /\ [][TakesNotification =>
            (InAttempt = {} /\ svPc = "select" /\ cur' = Head(notifQ))]_vars
    /\ [][AnswersControl =>
            (InAttempt = {} /\ svPc = "select" /\ svPc' = "select")]_vars

\* C38 witness: during the handshake with one substream a second substream
\* and a control request wait; neither has been looked at.
C38_Witness ==
    /\ svPc = "handshake"
    /\ cur = 1
    /\ notifQ = <<2>>
    /\ ctrlQ # <<>>
    /\ \A c \in ControlIds : ctrlReply[c] = -1
    /\ ~made[2]

(***************************************************************************)
(* Properties of a session worker (checked under SessionSpec).             *)
(* outbound holds the frames handed to framed.send for the latest request  *)
(* read in READING, interrupt the frame check_interruptions took meanwhile.*)
(***************************************************************************)
\* handle_request has returned for the latest frame, or the session is over.
HandlingOver == sPc \in {"reading", "done"}

IsFin(frame) == HasBit(frame.flags, FlagFIN)
FinFrames == {i \in 1..Len(outbound) : IsFin(outbound[i])}

\* The frames sent that bear the request_id of inbound frame f.
FramesFor(f) == {i \in 1..Len(outbound) : outbound[i].request_id = f.request_id}

\* C5 as claimed: once a request with response frames has been handled (every
\* write having succeeded), exactly one of its frames has FIN set and that
\* frame is the last one.
C5_Original ==
    (HandlingOver /\ outbound # <<>> /\ ~writeFailed)
        => FinFrames = {Len(outbound)}

\* C5 amended: every frame sent for a request bears its request_id; at most
\* one of them has FIN and no frame follows it; a response that ran to its end
\* (bad_request reply, service-error reply, body streamed to its last message)
\* has exactly one FIN frame, its last; an ACK reply has no FIN.
C5_FinIsLast ==
    /\ \A i \in 1..Len(outbound) : outbound[i].request_id = request.request_id
    /\ \A i \in FinFrames : i = Len(outbound)
    /\ (HandlingOver /\ handling \in {"bad_deadline", "service_error", "complete"})
          => FinFrames = {Len(outbound)} /\ outbound # <<>>
    /\ handling = "ack" => FinFrames = {}

\* C5 witness: a body of several messages, one of them chunked, was streamed
\* to its end.
C5_Witness ==
    /\ sPc = "reading"
    /\ handling = "complete"
    /\ Len(outbound) >= 3
    /\ ~writeFailed

\* What C6 promises for an inbound request f with a deadline below the minimum.
BadRequestReplied(f) ==
    /\ Cardinality(FramesFor(f)) = 1
    /\ \A i \in FramesFor(f) :
          outbound[i].status = StatusBadRequest /\ IsFin(outbound[i])

\* C6 as claimed: every inbound request with deadline < minimum_client_deadline,
\* whether taken by the request loop or by the interruption check, gets exactly
\* one bad_request FIN response and no service call.
C6_Original ==
    /\ (request.kind = "request"
            /\ request.deadline < MinimumClientDeadline /\ HandlingOver)
          => (BadRequestReplied(request) /\ ~serviceCalled)
    /\ (interrupt.kind = "request"
            /\ interrupt.deadline < MinimumClientDeadline /\ HandlingOver)
          => BadRequestReplied(interrupt)

\* C6 amended: every request read by the request loop (READING) with deadline
\* < minimum_client_deadline gets exactly one response frame, with its
\* request_id, status bad_request and FIN, and no service call; a request whose
\* deadline equals the minimum is not rejected this way.
C6_BadDeadline ==
    request.kind = "request" =>
        /\ request.deadline < MinimumClientDeadline =>
              /\ handling = "bad_deadline"
              /\ Len(outbound) = 1
              /\ BadRequestReplied(request)
              /\ outbound[1].payload = BadRequestStatus.details
              /\ ~serviceCalled
              /\ metricsLog = <<"status_error">>
        /\ request.deadline = MinimumClientDeadline =>
              /\ handling # "bad_deadline"
              /\ \A i \in 1..Len(outbound) : outbound[i].status # StatusBadRequest
              /\ request.flags = 0 => serviceCalled

\* C6 witness: a request below the minimum was answered, and one exactly at the
\* minimum went to the service.
C6_Witness ==
    /\ prevHandling = "bad_deadline"
    /\ request.kind = "request"
    /\ request.deadline = MinimumClientDeadline
    /\ serviceCalled

\* What C7 promises for an inbound request f that has the ACK flag.
AckReplied(f) ==
    /\ Cardinality(FramesFor(f)) = 1
    /\ \A i \in FramesFor(f) :
          /\ outbound[i].status = StatusOk
          /\ outbound[i].flags = FlagACK
          /\ outbound[i].payload = <<>>

\* C7 as claimed: every inbound request with the ACK flag gets exactly one ACK
\* response with status OK and an empty payload, and no service call.
C7_Original ==
    (request.kind = "request" /\ HasBit(request.flags, FlagACK) /\ HandlingOver
        /\ ~writeFailed)
        => (AckReplied(request) /\ Len(outbound) = 1 /\ ~serviceCalled)

\* C7 amended: a request with the ACK flag read by the request loop is never
\* passed to the service. It gets exactly one response frame, with its
\* request_id, status OK, the ACK flag and an empty payload, when its deadline
\* is at least the minimum, its flags fit in 8 bits and FIN is not set. With a
\* deadline below the minimum it gets the bad_request reply instead; with flags
\* above 255 the session task panics and with FIN set the frame is dropped, no
\* frame being sent in either case.
C7_AckReply ==
    (request.kind = "request" /\ HasBit(request.flags, FlagACK)) =>
        /\ ~serviceCalled
        /\ HandlingOver
        /\ CASE request.deadline < MinimumClientDeadline ->
                   handling = "bad_deadline" /\ BadRequestReplied(request)
             [] request.flags >= 256 ->
                   handling = "panic" /\ outbound = <<>> /\ runResult = "panic"
             [] HasBit(request.flags, FlagFIN) ->
                   handling = "client_fin" /\ outbound = <<>>
             [] OTHER ->
                   handling = "ack" /\ Len(outbound) = 1 /\ AckReplied(request)

\* C7 witness: an ACK request was answered and the session reads on.
C7_Witness ==
    /\ request.kind = "request"
    /\ request.flags = FlagACK
    /\ handling = "ack"
    /\ sPc = "reading"
    /\ ~writeFailed
    /\ outbound = <<AckFrame(request)>>

\* The step in which the service call of the current request times out.
ServiceTimesOut == sPc = "service_call" /\ handling' = "service_timeout"

\* C8: when the service call does not complete within the deadline, no frame
\* is sent for the request, the deadline-exceeded error is counted once, and
\* the session stays open, back in READING.
C8_ServiceTimeout ==
    /\ [](handling = "service_timeout" =>
             /\ outbound = <<>>
             /\ metricsLog = <<"ServiceCallExceededDeadline">>
             /\ serviceCalled)
    /\ [][ServiceTimesOut =>
             /\ sPc' = "reading"
             /\ outbound' = <<>>
             /\ ~closed' /\ runResult' = "running" /\ ~startError'
             /\ inbox' = inbox]_vars

\* C8 witness: after a service timeout the session is in READING, open, with
\* the next request waiting to be read.
C8_Witness ==
    /\ handling = "service_timeout"
    /\ sPc = "reading"
    /\ ~closed
    /\ inbox # <<>>
    /\ ENABLED SessionRead

\* C9: when the service call returns an error status, exactly one frame is
\* sent for the request: its request_id, the error's code, the error's details
\* as payload, FIN set; no body frame.
C9_ServiceError ==
    handling = "service_error" =>
        /\ svcStatus \in ServiceErrors
        /\ svcStatus.code # StatusOk
        /\ Len(outbound) = 1
        /\ outbound[1].request_id = request.request_id
        /\ outbound[1].status = svcStatus.code
        /\ outbound[1].payload = svcStatus.details
        /\ outbound[1].flags = FlagFIN
        /\ bodyCount = 0 /\ chunks = <<>>
        /\ serviceCalled

C9_Witness ==
    /\ handling = "service_error"
    /\ sPc = "reading"
    /\ ~writeFailed
    /\ svcStatus.code = StatusNotFound

PerRequestErrors == {"bad_deadline", "service_error", "service_timeout"}

\* A step in which handle_request returns for a request that failed with a
\* per-request error.
PerRequestErrorStep ==
    /\ framesRead' # framesRead \/ sPc = "service_call"
    /\ handling' \in PerRequestErrors

\* C10: after a deadline-below-minimum rejection, a service error or a service
\* timeout whose response frame (if any) was written, handle_request returns
\* Ok: the framed stream is not closed, the session is in READING, and the
\* next inbound frame is read.
C10_SessionSurvives ==
    /\ [][(PerRequestErrorStep /\ ~writeFailed') =>
             /\ sPc' = "reading"
             /\ ~closed'
             /\ runResult' = "running"
             /\ ~startError']_vars
    /\ []((sPc = "reading" /\ inbox # <<>>) => ENABLED SessionRead)

\* C10 witness: the frame after a per-request error was read and dispatched.
C10_Witness ==
    /\ prevHandling \in PerRequestErrors
    /\ framesRead = 2
    /\ serviceCalled
    /\ handling = "complete"
    /\ ~closed

\* The frame the interruption check took while the latest request was being
\* answered: a request with the FIN bit set, a frame that is not FIN-flagged.
FinFlagged(f) == f.kind = "request" /\ HasBit(f.flags, FlagFIN)
NotFinFlagged(f) ==
    f.kind = "malformed" \/ (f.kind = "request" /\ ~HasBit(f.flags, FlagFIN))

\* The flags of the frame convert to u8.
FlagsFit(f) == f.kind # "request" \/ FitsU8(f.flags)

\* process_body stopped on ClientInterruptedStream and returned Ok; nothing is
\* written for the request afterwards.
StoppedCleanlyBy(f) == interrupt = f => handling = "interrupted"
NothingWrittenAfter(f) == (interrupt = f /\ interrupt' = f) => outbound' = outbound

\* C18 as claimed: once the interruption check has read a FIN-flagged frame
\* during a streaming response, process_body returns without error and no
\* further frame of that response is written.
C18_Original ==
    /\ [](FinFlagged(interrupt) => StoppedCleanlyBy(interrupt))
    /\ [][FinFlagged(interrupt) => NothingWrittenAfter(interrupt)]_vars

\* C18 for the flags values that convert to u8: a FIN-flagged frame read by the
\* interruption check stops the response cleanly.
C18_FinStopsStreaming ==
    /\ []((FinFlagged(interrupt) /\ FlagsFit(interrupt))
            => StoppedCleanlyBy(interrupt))
    /\ [][FinFlagged(interrupt) => NothingWrittenAfter(interrupt)]_vars

\* C18 witness: a response was cut short by the client's FIN: frames were
\* written, the last of them without FIN.
C18_Witness ==
    /\ FinFlagged(interrupt)
    /\ handling = "interrupted"
    /\ outbound # <<>>
    /\ ~IsFin(outbound[Len(outbound)])

\* After the interruption the session is back in READING, open and without an
\* error, until it reads its next frame or the end of the inbound stream.
BackInReading ==
    \/ sPc = "reading" /\ ~closed /\ runResult = "running" /\ ~startError
    \/ sPc = "done" /\ remoteClosed /\ inbox = <<>> /\ handling = "interrupted"

\* A request that asks for a service call: deadline long enough, no flag.
PlainRequest(f) ==
    f.kind = "request" /\ ~DeadlineTooShort(f.deadline) /\ f.flags = 0

\* C19 as claimed: a FIN-flagged frame read by the interruption check ends only
\* the current response; the session returns to READING, neither closed nor
\* failed, and the service is called for a request that follows.
C19_Original ==
    /\ FinFlagged(interrupt) => BackInReading
    /\ (prevHandling = "interrupted" /\ PlainRequest(request)) => serviceCalled

\* C19 for the flags values that convert to u8.
C19_InterruptionEndsResponseOnly ==
    /\ (FinFlagged(interrupt) /\ FlagsFit(interrupt)) => BackInReading
    /\ (prevHandling = "interrupted" /\ PlainRequest(request)) => serviceCalled

\* C19 witness: the request read after an interrupted response was served to
\* the end of its body.
C19_Witness ==
    /\ prevHandling = "interrupted"
    /\ PlainRequest(request)
    /\ handling = "complete"
    /\ outbound # <<>>

\* The session ended with the error of the interruption check, the framed
\* stream closed, the error counted.
EndedWith(how) ==
    /\ handling = how
    /\ sPc = "done" /\ closed /\ runResult = "Err" /\ startError

\* The error the interruption check raises for a frame that is not FIN-flagged.
UnexpectedError(f) ==
    IF f.kind = "malformed" THEN "unexpected_malformed" ELSE "unexpected_message"

\* A step of the interruption check that found nothing ready, or WouldBlock.
NothingToRead ==
    /\ sPc = "check_interruptions"
    /\ sPc' # sPc
    /\ IF inbox = <<>> THEN ~remoteClosed ELSE Head(inbox).kind = "would_block"

\* C20 as claimed: during a streaming response a frame that is not FIN-flagged,
\* decodable or not, and a close by the remote end the session with the error
\* of the interruption check, the framed stream closed and nothing more
\* written; a Pending or WouldBlock poll lets the streaming go on.
C20_Original ==
    /\ [](/\ NotFinFlagged(interrupt) => EndedWith(UnexpectedError(interrupt))
          /\ handling = "closed_by_remote" => EndedWith("closed_by_remote"))
    /\ [][/\ NotFinFlagged(interrupt) => NothingWrittenAfter(interrupt)
          /\ handling = "closed_by_remote" => outbound' = outbound
          /\ NothingToRead => sPc' = "stream_next"]_vars

\* C20 for the flags values that convert to u8.
C20_UnexpectedFrameEndsSession ==
    /\ [](/\ (NotFinFlagged(interrupt) /\ FlagsFit(interrupt))
                => EndedWith(UnexpectedError(interrupt))
          /\ handling = "closed_by_remote" => EndedWith("closed_by_remote"))
    /\ [][/\ NotFinFlagged(interrupt) => NothingWrittenAfter(interrupt)
          /\ handling = "closed_by_remote" => outbound' = outbound
          /\ NothingToRead => sPc' = "stream_next"]_vars

\* C20 witness: a request frame without FIN arrived after part of a response
\* was written and ended the session.
C20_Witness ==
    /\ interrupt.kind = "request"
    /\ NotFinFlagged(interrupt)
    /\ EndedWith("unexpected_message")
    /\ outbound # <<>>

\* The step of process_body in which the wait for the next body message timed
\* out.
ReadDeadlineStep == sPc = "stream_next" /\ handling' = "read_deadline"

\* C21: when the response body does not yield its next message within the
\* deadline, no frame is written in that step or later for the request, the
\* ReadStreamExceededDeadline error is counted once, process_body returns Ok
\* and the session is back in READING, open and without an error.
C21_ReadDeadlineStopsStreaming ==
    /\ [][ReadDeadlineStep =>
            /\ outbound' = outbound
            /\ metricsLog' = Append(metricsLog, "ReadStreamExceededDeadline")
            /\ sPc' = "reading"
            /\ ~closed' /\ runResult' = "running" /\ ~startError']_vars
    /\ [][(handling = "read_deadline" /\ framesRead' = framesRead)
            => outbound' = outbound]_vars

\* C21 witness: a response that had written a frame without FIN was stopped by
\* the deadline, and the session waits for the next request.
C21_Witness ==
    /\ handling = "read_deadline"
    /\ sPc = "reading"
    /\ outbound # <<>>
    /\ ~IsFin(outbound[Len(outbound)])
    /\ metricsLog[Len(metricsLog)] = "ReadStreamExceededDeadline"

\* The frame was read by run as a new request (not by the interruption check).
ReadsRequest == framesRead' # framesRead

\* A frame continues the message of the frame written before it, or begins a
\* message: body payloads are numbered from 1 within a message; an error
\* status travels in one frame.
BeginsMessage(frame) ==
    frame.status # StatusOk \/ frame.payload = <<>> \/ frame.payload[1] = 1
ContinuesMessage(prev, frame) ==
    /\ prev.payload # <<>>
    /\ frame.payload # <<>>
    /\ frame.payload[1] = prev.payload[Len(prev.payload)] + 1
    /\ prev.status = StatusOk /\ frame.status = StatusOk
    /\ ~IsFin(prev)

\* C22: a session carries one call at a time and keeps order. run reads the
\* next request (and so calls the service) only from READING, when nothing of
\* the previous response is left to write; between two reads frames are only
\* appended and every one carries the id of the request read last; the
\* sub-messages of a message are written first to last.
C22_OneCallInOrder ==
    /\ [][ReadsRequest => (sPc = "reading" /\ chunks = <<>>)]_vars
    /\ [][(sPc # "service_call" /\ sPc' = "service_call")
            => (ReadsRequest /\ sPc = "reading")]_vars
    /\ [][(~ReadsRequest /\ outbound' # outbound) =>
            (/\ sPc \notin {"reading", "done"}
             /\ Len(outbound') = Len(outbound) + 1
             /\ SubSeq(outbound', 1, Len(outbound)) = outbound)]_vars
    /\ [](\A i \in 1..Len(outbound) :
            /\ outbound[i].request_id = request.request_id
            /\ IF i = 1
               THEN BeginsMessage(outbound[i])
               ELSE \/ ContinuesMessage(outbound[i - 1], outbound[i])
                    \/ BeginsMessage(outbound[i]))

\* C22 witness: a second request is being answered; its response has a message
\* split in two sub-messages, both written, the second after the first.
C22_Witness ==
    /\ request.request_id = 2
    /\ serviceCalled
    /\ Len(outbound) >= 2
    /\ ContinuesMessage(outbound[1], outbound[2])
    /\ prevHandling \in {"complete", "interrupted", "read_deadline"}

\* The terminal transitions of a session: run saw the end of the inbound
\* stream, or the session ended some other way.
SessionEndStep == sPc # "done" /\ sPc' = "done"
StreamEndStep == SessionEndStep /\ sPc = "reading" /\ inbox = <<>>

\* The error that made run leave its loop.
OriginalCause == IF writeFailed THEN "write_error" ELSE handling

\* run closed the framed stream and returned the error that ended the session.
ClosedWithCause == closed /\ runResult = "Err" /\ runError = OriginalCause

\* C25 as claimed: every terminal transition closes the framed stream; the end
\* of the inbound stream gives Ok, a frame error or a handler error gives Err
\* with the original cause.
C25_Original ==
    [][SessionEndStep =>
          IF StreamEndStep
          THEN closed' /\ runResult' = "Ok"
          ELSE ClosedWithCause']_vars

\* C25: when run returns, it has closed the framed stream. At the end of the
\* inbound stream the result is Ok if the close succeeded and the close error
\* if it failed; after a frame error or a handler error the result is that
\* error, whether the close succeeded or not. A session that ends by a panic
\* closes nothing and returns nothing.
C25_CloseOnTermination ==
    [][SessionEndStep =>
          IF StreamEndStep
          THEN /\ closed'
               /\ \/ runResult' = "Ok" /\ runError' = "none"
                  \/ runResult' = "Err" /\ runError' = "close_error"
          ELSE IF runResult' = "panic"
          THEN closed' = closed /\ runError' = "none"
          ELSE ClosedWithCause']_vars

\* C25 witness: a session ended on a write failure in the middle of a response:
\* the stream was closed and the write error returned.
C25_Witness ==
    /\ sPc = "done"
    /\ handling = "streaming"
    /\ outbound # <<>>
    /\ closed
    /\ runResult = "Err"
    /\ runError = "write_error"

\* What handle_request does with a request whose flags are reduced to their
\* FIN and ACK bits.
HandledAsTruncated(f) ==
    IF DeadlineTooShort(f.deadline) THEN "bad_deadline"
    ELSE IF HasBit(f.flags, FlagFIN) THEN "client_fin"
    ELSE IF HasBit(f.flags, FlagACK) THEN "ack"
    ELSE "service_call"

\* run reads a request frame.
ReadsRequestFrame == ReadsRequest /\ request'.kind = "request"

\* C28 as claimed: for every value of the u32 flags field a request is handled
\* as the same request with only its FIN and ACK bits kept, and no session
\* aborts because of the other bits.
C28_Original ==
    /\ [](runResult # "panic")
    /\ [][ReadsRequestFrame => handling' = HandledAsTruncated(request')]_vars

\* C28 for the flags values that convert to u8: the bits other than FIN and
\* ACK are ignored; a session aborts only on flags that do not convert.
C28_UnknownLowBitsIgnored ==
    /\ [](runResult = "panic" =>
            \/ ~FitsU8(request.flags)
            \/ ~FitsU8(interrupt.flags))
    /\ [][(ReadsRequestFrame /\ FitsU8(request'.flags))
            => handling' = HandledAsTruncated(request')]_vars

\* C28 witness: a request with a reserved low bit set was served like a plain
\* request, its response written to the end.
C28_Witness ==
    /\ request.kind = "request"
    /\ request.flags = 4
    /\ serviceCalled
    /\ handling = "complete"
    /\ outbound # <<>>

\* run reads, in READING, a request frame that has the FIN flag.
ReadsFinFrame == ReadsRequestFrame /\ HasBit(request'.flags, FlagFIN)

\* The frame read is not dispatched and not answered; the session is back in
\* READING, open and without an error.
DroppedSilently ==
    /\ handling = "client_fin"
    /\ ~serviceCalled
    /\ outbound = <<>>
    /\ sPc = "reading" /\ ~closed /\ runResult = "running" /\ ~startError

\* C29 as claimed: for a FIN-flagged frame read in READING the service is not
\* called, no response frame is sent and the session returns to READING.
C29_Original == [][ReadsFinFrame => DroppedSilently']_vars

\* C29: a FIN-flagged frame read in READING never reaches the service. If its
\* deadline is below the minimum it is answered with the bad-request response;
\* otherwise, if its flags do not convert to u8, the task panics; otherwise
\* nothing is sent and the session returns to READING.
C29_FinInReading ==
    [][ReadsFinFrame =>
          /\ ~serviceCalled'
          /\ IF DeadlineTooShort(request'.deadline)
             THEN /\ handling' = "bad_deadline"
                  /\ outbound' = <<BadRequestFrame(request')>>
             ELSE IF ~FitsU8(request'.flags)
             THEN runResult' = "panic" /\ outbound' = <<>>
             ELSE DroppedSilently']_vars

\* C29 witness: the session answered a request, then read a FIN frame with a
\* valid deadline, dropped it and waits in READING.
C29_Witness ==
    /\ prevHandling = "complete"
    /\ request.kind = "request"
    /\ HasBit(request.flags, FlagFIN)
    /\ DroppedSilently

\* C30: a frame read in READING that does not decode as an RpcRequest ends
\* the session: the service is not called, nothing is written, the framed
\* stream is closed, run returns the decode error and start counts it.
C30_DecodeErrorEndsSession ==
    request.kind = "malformed" =>
        /\ EndedWith("decode_error")
        /\ runError = "decode_error"
        /\ ~serviceCalled
        /\ outbound = <<>>

\* C30 witness: the session answered a request in full, then read a frame that
\* does not decode and ended.
C30_Witness ==
    /\ prevHandling = "complete"
    /\ framesRead = 2
    /\ request.kind = "malformed"
    /\ sPc = "done"
    /\ closed

\* C31: every response frame written while a request is handled (bad-request
\* reply, ACK reply, service-error reply, body messages and their chunks)
\* carries the request_id of that request; frames are written only for a frame
\* that decoded as a request.
C31_RequestIdEchoed ==
    /\ \A i \in 1..Len(outbound) : outbound[i].request_id = request.request_id
    /\ \A i \in 1..Len(chunks) : chunks[i].request_id = request.request_id
    /\ outbound # <<>> => request.kind = "request"

\* C31 witness: the second request of a session, after an ACK exchange, was
\* answered with the bad-request reply, which carries the id 2.
C31_Witness ==
    /\ prevHandling = "ack"
    /\ handling = "bad_deadline"
    /\ request.request_id = 2
    /\ Len(outbound) = 1
    /\ outbound[1].request_id = 2
    /\ outbound[1].status = BadRequestStatus.code

\* The frame at the head of the inbound stream is taken off it.
FrameConsumed == inbox # <<>> /\ inbox' = Tail(inbox)

\* The one interruption check process_body makes between the write of the last
\* frame and the end of the response stream.
LastInterruptionCheck ==
    sPc = "check_interruptions" /\ bodyDone /\ chunks = <<>> /\ FinWritten

\* C36 as claimed, for a client that sends each request only after the final
\* FIN-flagged frame of the previous response (OneAtATimeSpec): a legitimate
\* request (valid deadline, no flag) is always read in READING and dispatched
\* to the service.
C36_Original ==
    [][(FrameConsumed /\ PlainRequest(Head(inbox))) =>
          (sPc = "reading" /\ request' = Head(inbox) /\ sPc' = "service_call")]_vars

\* C36 for what the code does, with the same client: a request is read in
\* READING and dispatched (or panics on its flags) unless it arrives before
\* the interruption check that follows the write of the final frame; that
\* check consumes it and the response ends interrupted, with an error or in a
\* panic. No other frame is ever taken off the stream.
C36_NextRequestRaces ==
    [][FrameConsumed =>
          \/ /\ sPc = "reading"
             /\ request' = Head(inbox)
             /\ handling' \in {HandledAsTruncated(request'), "panic"}
          \/ /\ LastInterruptionCheck
             /\ interrupt' = Head(inbox)
             /\ request' = request
             /\ handling' \in {"interrupted", "unexpected_message", "panic"}]_vars

\* C36 witness: the whole response was written, FIN included, and the plain
\* request that followed was consumed by the interruption check: the session
\* ended with UnexpectedIncomingMessage.
C36_Witness ==
    /\ FinWritten
    /\ outbound[Len(outbound)].status = StatusOk
    /\ PlainRequest(interrupt)
    /\ interrupt.request_id = request.request_id + 1
    /\ EndedWith("unexpected_message")

(***************************************************************************)
(* Properties of the bounded executor (checked under ExecSpec).            *)
(***************************************************************************)
\* Jobs whose task was created.
Admitted == Holding \cup Ended

\* C1 as claimed: in every reachable state the free permits plus the tasks
\* spawned through try_spawn or spawn that have not finished equal N.
C1_Original ==
    NumAvailable + Cardinality(Holding) = MaxAvailable

\* C1: in every reachable state the free permits, plus the permits handed to a
\* waiting spawn that has not resumed yet, plus the tasks spawned and not
\* finished equal max_available (N); the tasks never exceed N; as long as
\* nothing was submitted through spawn, as in the RPC server, the free permits
\* plus the unfinished tasks equal N.
C1_PermitAccounting ==
    /\ NumAvailable + Cardinality(Assigned) + Cardinality(Holding) = MaxAvailable
    /\ Cardinality(Holding) <= MaxAvailable
    /\ NumAvailable >= 0
    /\ (\A j \in Jobs : via[j] # "spawn")
          => NumAvailable + Cardinality(Holding) = MaxAvailable

\* C1 witness: the executor is full again after a task ended and its permit
\* went to a spawn that was waiting.
C1_Witness ==
    /\ Cardinality(Holding) = MaxAvailable
    /\ permits = 0
    /\ Ended # {}
    /\ \E j \in Holding : via[j] = "spawn" /\ blockers[j] # {}

C14_PermitHeldAndReleasedOnce ==
    /\ \A j \in Holding : released[j] = 0
    /\ \A j \in Ended : released[j] = 1
    /\ NumAvailable + Cardinality(Assigned) + Cardinality(Holding) = MaxAvailable

\* C14 witness: a task completed, one panicked, one was aborted, and every
\* permit is free again.
C14_Witness ==
    /\ \E j \in Jobs : job[j] = "finished"
    /\ \E j \in Jobs : job[j] = "panicked"
    /\ \E j \in Jobs : job[j] = "aborted"
    /\ NumAvailable = MaxAvailable

\* A step in which job j is submitted through try_spawn.
IsTrySpawnOf(j) == job[j] = "none" /\ via'[j] = "try_spawn"

\* C15: try_spawn never waits; it creates the task, taking one permit, iff a
\* permit is free at the call, and otherwise fails, leaves the permits as they
\* are and its task is never run.
C15_TrySpawnNeverWaits ==
    /\ [](\A j \in Jobs : via[j] = "try_spawn" => job[j] \notin {"waiting", "assigned"})
    /\ [][\A j \in Jobs :
            /\ IsTrySpawnOf(j) =>
                  IF NumAvailable > 0
                  THEN job'[j] = "spawned" /\ permits' = permits - 1
                  ELSE job'[j] = "rejected" /\ permits' = permits
            /\ job[j] = "rejected" => job'[j] = "rejected"]_vars

\* C15 witness: a try_spawn failed on a full executor and a later one succeeded.
C15_Witness ==
    \E j, k \in Jobs :
        /\ j < k
        /\ job[j] = "rejected" /\ freeAtCall[j] = 0
        /\ via[k] = "try_spawn" /\ k \in Admitted

\* A step in which the spawn future of job j is dropped before it returned.
IsDropOf(j) == job[j] \in {"waiting", "assigned"} /\ job'[j] = "dropped"

\* C16 as claimed: dropping a spawn future that has not returned starts no
\* task and neither consumes nor releases a permit, and the free permits plus
\* the running tasks equal N ever after.
C16_Original ==
    /\ []((\E j \in Jobs : job[j] = "dropped")
            => NumAvailable + Cardinality(Holding) = MaxAvailable)
    /\ [][\A j \in Jobs :
            IsDropOf(j) => (permits' = permits /\ Holding' = Holding)]_vars

\* C16: dropping a spawn future that has not returned starts no task, then or
\* later, and loses no permit. A future still queued for a permit leaves the
\* permits untouched. A future to which an ending task had handed its permit
\* gives that permit back, to the next waiting spawn or to the free permits.
\* Free permits + permits handed to waiting spawns + tasks = N in every state.
C16_SpawnCancelSafe ==
    /\ [](/\ NumAvailable + Cardinality(Assigned) + Cardinality(Holding) = MaxAvailable
          /\ \A j \in Jobs : job[j] = "dropped" => \A i \in 1..Len(waitQ) : waitQ[i] # j)
    /\ [][\A j \in Jobs :
            /\ job[j] = "dropped" => job'[j] = "dropped"
            /\ IsDropOf(j) =>
                  /\ Holding' = Holding
                  /\ Ended' = Ended
                  /\ permits' + Cardinality(Assigned') = permits + Cardinality(Assigned)
                  /\ job[j] = "waiting" => (permits' = permits /\ Assigned' = Assigned)]_vars

\* C16 witness: a spawn future was dropped after a permit had been handed to
\* it, and a task submitted later runs.
C16_Witness ==
    \E j, k \in Jobs :
        /\ j < k
        /\ job[j] = "dropped" /\ released[j] = 1
        /\ job[k] = "running"

SessionPlaces == {"reading", "service_call", "check_interruptions", "stream_next"}

\* The session task is over and the permit it held is back in the executor.
SessionGone == sPc = "done" /\ Terminated(1) /\ permits = MaxSessions

\* C39: once the remote peer has closed its substream, wherever the session
\* is at that moment, the session eventually terminates and its permit is
\* available again, provided timers fire and the task keeps being polled.
C39_CloseTerminatesSession ==
    /\ \A place \in SessionPlaces :
          (remoteClosed /\ sPc = place) ~> SessionGone
    /\ [](SessionGone => [](SessionGone))

\* C39 witness: the peer closed while frames of a response were still to be
\* written; the session noticed it at the interruption check, ended with
\* StreamClosedByRemote, and the task returned its permit.
C39_Witness ==
    /\ remoteClosed
    /\ EndedWith("closed_by_remote")
    /\ outbound # <<>>
    /\ SessionGone

(***************************************************************************)
(* Properties of into_response and of the chunking (checked under          *)
(* ResponseSpec).                                                          *)
(***************************************************************************)
RECURSIVE ConcatPayloads(_)
ConcatPayloads(msgs) ==
    IF msgs = <<>> THEN <<>> ELSE Head(msgs).payload \o ConcatPayloads(Tail(msgs))

\* The response was split.
Chunked == subMessages # <<>>

\* C32: a payload of at most chunk_size bytes yields one message, one of
\* chunk_size + 1 bytes yields two; the sub-messages share the request_id (and
\* the status) of the message, their payloads concatenated in the order of
\* emission give the payload of the message, and FIN is carried by the last
\* sub-message only, and only if the message carried it.
C32_Chunking ==
    Chunked =>
        LET n == Len(subMessages)
            len == Len(rpcResponse.payload)
        IN /\ len <= ChunkSize => n = 1
           /\ len = ChunkSize + 1 => n = 2
           /\ \A k \in 1..n :
                 /\ subMessages[k].request_id = rpcResponse.request_id
                 /\ subMessages[k].status = rpcResponse.status
                 /\ Len(subMessages[k].payload) <= ChunkSize
                 /\ k < n => ~IsFin(subMessages[k])
           /\ IsFin(subMessages[n]) <=> IsFin(rpcResponse)
           /\ ConcatPayloads(subMessages) = rpcResponse.payload

\* C32 witness: a FIN-flagged message of chunk_size + 1 bytes was split in two;
\* the second sub-message carries the FIN.
C32_Witness ==
    /\ Len(rpcResponse.payload) = ChunkSize + 1
    /\ IsFin(rpcResponse)
    /\ Len(subMessages) = 2
    /\ ~IsFin(subMessages[1])
    /\ IsFin(subMessages[2])

\* into_response was applied to the body item.
Converted == rpcResponse # NoMessage

\* C33: into_response makes one RpcResponse with the request's id of each body
\* item: an Ok message gets status OK, its bytes as payload and FIN exactly
\* when it is_finished, no other flag; an Err gets the status code of the
\* error, its details as payload and FIN.
C33_IntoResponse ==
    Converted =>
        LET item == bodyResult.item IN
        /\ rpcResponse.request_id = bodyResult.request_id
        /\ IF item.ok
           THEN /\ rpcResponse.status = StatusOk
                /\ rpcResponse.payload = item.payload
                /\ rpcResponse.flags = IF item.finished THEN FlagFIN ELSE 0
           ELSE /\ rpcResponse.status = item.status.code
                /\ rpcResponse.status # StatusOk
                /\ rpcResponse.payload = item.status.details
                /\ rpcResponse.flags = FlagFIN

\* C33 witness: an Err item of the body of request 2 was converted to a
\* response with the error's code and FIN.
C33_Witness ==
    /\ Converted
    /\ bodyResult.request_id = 2
    /\ ~bodyResult.item.ok
    /\ rpcResponse.request_id = 2
    /\ rpcResponse.status = StatusNotFound
    /\ rpcResponse.flags = FlagFIN

====
